---------------------------- MODULE Spec2Model ----------------------------
(***************************************************************************)
(* watch-now: the concurrency/state engine.                                *)
(*                                                                         *)
(*   internal/core   StateStore (Update, Get, GetAll, Subscribe,           *)
(*                   Unsubscribe, SubscribeUpdates, UnsubscribeUpdates)    *)
(*                   Scheduler (Start, runChecks)                          *)
(*   internal/monitors  QualityMonitor (golangciLintMutex, isGolangciLint, *)
(*                   Check), RESTMonitor (Check)                           *)
(*                                                                         *)
(* Every StateStore method holds s.mu for its whole body (Lock/RLock with  *)
(* a deferred unlock), so each method is one atomic action.  Goroutines    *)
(* (the scheduler's workers, the subscriptions' forwarders) are sequences  *)
(* of actions cut at their blocking points.                                *)
(***************************************************************************)
EXTENDS Integers, Sequences, FiniteSets, TLC

(***************************************************************************)
(* Program constants.                                                      *)
(***************************************************************************)
\* history is cut to its last 100 entries (Update)
HistoryCap == 100
\* make(chan StateUpdate, 10) (Subscribe, SubscribeUpdates)
WatcherCap == 10

(***************************************************************************)
(* Bounds of the model.                                                    *)
(***************************************************************************)
\* Update calls in one run of the store with subscriptions
MaxUpdates == 2
\* Unsubscribe calls made for one subscription (a second call is the repeat)
MaxUnsubCalls == 2
\* capacity of the channel a caller hands to Subscribe
ChanCap == 1

StoreNames == {"api", "lint"}
\* the subscriptions of one run, numbered in the order they are created
SubIds == {1, 2}

VARIABLES
  maps,       \* heap of map[string]*Result objects; maps[ResultsRef] is s.results
  history,    \* s.history: name -> sequence of HistoryEntry
  watchers,   \* s.watchers: sequence of watcher channels (by subscription id)
  wq,         \* buffer of each watcher channel
  wclosed,    \* whether each watcher channel is closed
  cq,         \* buffer of the channel the caller gave to Subscribe
  cclosed,    \* whether that channel is closed
  kind,       \* "none" | "map" (Subscribe) | "upd" (SubscribeUpdates)
  fpc,        \* position of the subscription's forwarding goroutine
  fsnap,      \* the GetAll() value the forwarder is about to send
  nSub,       \* subscriptions created so far
  unsubCalls, \* Unsubscribe/UnsubscribeUpdates calls made per subscription
  panics,     \* run-time panics raised so far: <<what, where, subscription>>
  lastNotify, \* the last Update's watchers: those it sent to, those it found full
  nUpd,       \* Update calls made per name (the clock of the Results)
  latest,     \* the Result each caller passed last to Update, per name
  snaps,      \* the maps callers got from GetAll (references into maps)
  snapExpect, \* what each caller expects its map to hold
  spc,        \* Scheduler.Start: position of the scheduler goroutine
  spawnIdx,   \* runChecks: index of the next monitor to start
  wg,         \* runChecks: the WaitGroup counter
  mpc,        \* position of each monitor's worker goroutine
  mres,       \* what Check returned to a worker that has not yet called Update
  golangciLintMutex, \* 0 when free, else the monitor holding it
  tickerOn,   \* whether Start's ticker exists
  tickerC,    \* ticks buffered in ticker.C (capacity 1)
  cancelled,  \* whether ctx is done
  ticks,      \* runChecks passes started
  runs,       \* Check calls started per monitor (the clock of its Results)
  execCount,  \* Check calls started per monitor in the current pass
  updCount,   \* Update calls made per monitor in the current pass
  met,        \* the Check called on its own: its monitor and what it meets
  got,        \* what that Check returned
  main,       \* the command-line program: position, results, status, exit code
  api,        \* the last /api/status response: its results and overall status
  mu,         \* s.mu of the store, when its methods run step by step
  gos,        \* the goroutines calling those methods: position and locals
  trigger,    \* the StateUpdate each forwarding goroutine took last
  delivered,  \* what each forwarder has put on its subscriber's channel
  now,        \* the time, in units of the clock of the deadlines
  called,     \* when each lint-exclusive Check was called
  deadline    \* the deadline of each lint-exclusive check's checkCtx

storeVars == <<maps, history, watchers, wq, wclosed>>
subVars == <<cq, cclosed, kind, fpc, fsnap, nSub, unsubCalls>>
callerVars == <<nUpd, latest, snaps, snapExpect>>
schedVars == <<spc, spawnIdx, wg, mpc, mres, golangciLintMutex, tickerOn,
               tickerC, cancelled, ticks, runs, execCount, updCount>>
checkVars == <<met, got>>
statusVars == <<main, api>>
lockVars == <<mu, gos>>
deliverVars == <<trigger, delivered>>
timeVars == <<now, called, deadline>>
progVars == <<met, got, main, api, mu, gos, trigger, delivered, now, called,
              deadline>>
vars == <<maps, history, watchers, wq, wclosed, cq, cclosed, kind, fpc, fsnap,
          nSub, unsubCalls, panics, lastNotify, nUpd, latest, snaps,
          snapExpect,
          spc, spawnIdx, wg, mpc, mres, golangciLintMutex, tickerOn, tickerC,
          cancelled, ticks, runs, execCount, updCount, met, got, main,
          api, mu, gos, trigger, delivered, now, called, deadline>>

(***************************************************************************)
(* Go values.                                                              *)
(***************************************************************************)
\* a Go map as a function on the keys it holds
EmptyMap == [k \in {} |-> k]
MapPut(m, k, v) == [x \in (DOMAIN m) \cup {k} |-> IF x = k THEN v ELSE m[x]]
MapDelete(m, k) == [x \in (DOMAIN m) \ {k} |-> m[x]]
Range(s) == {s[i] : i \in DOMAIN s}
\* a *Result that may be nil: <<>> is nil, <<r>> points to r
Nil == <<>>
Ptr(r) == <<r>>

\* monitors.Result (Duration is display data); Metadata is nil, a map without
\* keys, until a check makes one
Result(name, type, status, message, stamp) ==
  [Name |-> name, Type |-> type, Status |-> status, Message |-> message,
   Timestamp |-> stamp, Metadata |-> EmptyMap]

\* the store's own results map is the first map allocated (NewStateStore)
ResultsRef == 1
results == maps[ResultsRef]

(***************************************************************************)
(* StateStore                                                              *)
(***************************************************************************)
NewStateStore ==
  /\ maps = <<EmptyMap>>
  /\ history = EmptyMap
  /\ watchers = <<>>

\* s.history[name]: the nil slice for a missing key
HistoryOf(h, name) == IF name \in DOMAIN h THEN h[name] ELSE <<>>

\* the cut keeping the first HistoryCap entries instead of the last
AppendHistoryFirstN(h, r) ==
  LET app == Append(HistoryOf(h, r.Name), [Result |-> r])
  IN  MapPut(h, r.Name,
        IF Len(app) > HistoryCap THEN SubSeq(app, 1, HistoryCap) ELSE app)
\* history = append(history, entry); if len > 100 { history = history[len-100:] }
AppendHistory(h, r) ==
  LET app == Append(HistoryOf(h, r.Name), [Result |-> r])
  IN  MapPut(h, r.Name,
        IF Len(app) > HistoryCap
          THEN SubSeq(app, Len(app) - HistoryCap + 1, Len(app))
          ELSE app)

StateUpdate(r) == [Name |-> r.Name, Result |-> r]

\* select { case watcher <- update: default: } for every watcher of the list
Notify(q, u) ==
  [w \in DOMAIN q |->
     IF w \in Range(watchers) /\ ~wclosed[w] /\ Len(q[w]) < WatcherCap
       THEN Append(q[w], u)
       ELSE q[w]]

\* the assignment made only for a name the map does not hold yet
StoreResultIfAbsent(m, r) == IF r.Name \in DOMAIN m THEN m ELSE MapPut(m, r.Name, r)
\* the assignment made to a new map, which replaces s.results
StoreResultAlone(m, r) == MapPut(EmptyMap, r.Name, r)
\* s.results[result.Name] = result
StoreResult(m, r) == MapPut(m, r.Name, r)

\* Update with a plain send (no default case): it waits for room in every queue
UpdateBlocking(r) ==
  /\ \A w \in Range(watchers) : Len(wq[w]) < WatcherCap
  /\ maps' = [maps EXCEPT ![ResultsRef] = StoreResult(@, r)]
  /\ history' = AppendHistory(history, r)
  /\ wq' = Notify(wq, StateUpdate(r))
  /\ panics' = panics
  /\ lastNotify' = [sent |-> Range(watchers), full |-> {}]
  /\ UNCHANGED <<watchers, wclosed, cq, cclosed, kind, fpc, fsnap, nSub,
                 unsubCalls>>

Update(r) ==
  /\ maps' = [maps EXCEPT ![ResultsRef] = StoreResult(@, r)]
  /\ history' = AppendHistory(history, r)
  /\ wq' = Notify(wq, StateUpdate(r))
  /\ panics' = panics \cup
       {<<"send on closed channel", "Update", w>> :
          w \in {x \in Range(watchers) : wclosed[x]}}
  /\ lastNotify' =
       [sent |-> {w \in Range(watchers) : Len(wq'[w]) > Len(wq[w])},
        full |-> {w \in Range(watchers) : Len(wq[w]) >= WatcherCap}]
  /\ UNCHANGED <<watchers, wclosed, cq, cclosed, kind, fpc, fsnap, nSub,
                 unsubCalls>>

Get(name) == IF name \in DOMAIN results THEN Ptr(results[name]) ELSE Nil

\* GetAll returning s.results itself
GetAllAliased(h) == [heap |-> h, ref |-> ResultsRef]
\* GetAll on heap h: a new map filled from s.results; the reference returned
GetAll(h) ==
  [heap |-> Append(h, [k \in DOMAIN h[ResultsRef] |-> h[ResultsRef][k]]),
   ref |-> Len(h) + 1]
\* the value of the map GetAll returns
GetAllValue == GetAll(maps).heap[GetAll(maps).ref]

\* Subscribe(ch): subscription k is the k-th one created; ch is its channel
Subscribe(k) ==
  /\ watchers' = Append(watchers, k)
  /\ wq' = [wq EXCEPT ![k] = <<>>]
  /\ wclosed' = [wclosed EXCEPT ![k] = FALSE]
  /\ kind' = [kind EXCEPT ![k] = "map"]
  /\ fpc' = [fpc EXCEPT ![k] = "range"]
  /\ nSub' = k
  /\ UNCHANGED <<maps, history, cq, cclosed, fsnap, unsubCalls, panics,
                 lastNotify>>

\* the forwarding goroutine: for range watcher
ForwardReceive(k) ==
  /\ fpc[k] = "range"
  /\ \/ /\ wq[k] # <<>>
        /\ wq' = [wq EXCEPT ![k] = Tail(@)]
        /\ fpc' = [fpc EXCEPT ![k] = "getall"]
     \/ /\ wq[k] = <<>>
        /\ wclosed[k]
        /\ fpc' = [fpc EXCEPT ![k] = "done"]
        /\ UNCHANGED wq
  /\ UNCHANGED <<maps, history, watchers, wclosed, cq, cclosed, kind, fsnap,
                 nSub, unsubCalls, panics,
                 lastNotify>>

\* the forwarding goroutine: the operand of the send, s.GetAll()
ForwardGetAll(k) ==
  /\ fpc[k] = "getall"
  /\ fsnap' = [fsnap EXCEPT ![k] = <<GetAllValue>>]
  /\ fpc' = [fpc EXCEPT ![k] = "send"]
  /\ UNCHANGED <<maps, history, watchers, wq, wclosed, cq, cclosed, kind,
                 nSub, unsubCalls, panics,
                 lastNotify>>

\* the forwarding goroutine: select { case ch <- snapshot: default: }; a send
\* on a closed channel panics, the deferred recover ends the goroutine
ForwardSend(k) ==
  /\ fpc[k] = "send"
  /\ fsnap' = [fsnap EXCEPT ![k] = <<>>]
  /\ IF cclosed[k]
       THEN /\ panics' = panics \cup {<<"send on closed channel", "forwarder", k>>}
            /\ fpc' = [fpc EXCEPT ![k] = "recovered"]
            /\ UNCHANGED cq
       ELSE /\ cq' = [cq EXCEPT ![k] =
                        IF Len(@) < ChanCap THEN Append(@, fsnap[k][1]) ELSE @]
            /\ fpc' = [fpc EXCEPT ![k] = "range"]
            /\ UNCHANGED panics
  /\ UNCHANGED <<maps, history, watchers, wq, wclosed, cclosed, kind, nSub,
                 unsubCalls, lastNotify>>

\* Unsubscribe(ch) closing ch and leaving the list of watchers as it is
UnsubscribeCloseOnly(k) ==
  /\ UNCHANGED <<watchers, wclosed>>
  /\ IF cclosed[k]
       THEN /\ panics' = panics \cup {<<"close of closed channel", "Unsubscribe", k>>}
            /\ UNCHANGED cclosed
       ELSE /\ cclosed' = [cclosed EXCEPT ![k] = TRUE]
            /\ UNCHANGED panics
  /\ unsubCalls' = [unsubCalls EXCEPT ![k] = @ + 1]
  /\ UNCHANGED <<maps, history, wq, cq, kind, fpc, fsnap, nSub, lastNotify>>
\* Unsubscribe(ch) for the channel of subscription k
Unsubscribe(k) ==
  /\ IF Len(watchers) > 0
       THEN LET lastWatcher == watchers[Len(watchers)]
            IN  /\ watchers' = SubSeq(watchers, 1, Len(watchers) - 1)
                /\ wclosed' = [wclosed EXCEPT ![lastWatcher] = TRUE]
       ELSE UNCHANGED <<watchers, wclosed>>
  /\ IF cclosed[k]
       THEN /\ panics' = panics \cup {<<"close of closed channel", "Unsubscribe", k>>}
            /\ UNCHANGED cclosed
       ELSE /\ cclosed' = [cclosed EXCEPT ![k] = TRUE]
            /\ UNCHANGED panics
  /\ unsubCalls' = [unsubCalls EXCEPT ![k] = @ + 1]
  /\ UNCHANGED <<maps, history, wq, cq, kind, fpc, fsnap, nSub, lastNotify>>

\* SubscribeUpdates(): the caller reads the watcher channel itself
SubscribeUpdates(k) ==
  /\ watchers' = Append(watchers, k)
  /\ wq' = [wq EXCEPT ![k] = <<>>]
  /\ wclosed' = [wclosed EXCEPT ![k] = FALSE]
  /\ kind' = [kind EXCEPT ![k] = "upd"]
  /\ nSub' = k
  /\ UNCHANGED <<maps, history, cq, cclosed, fpc, fsnap, unsubCalls, panics,
                 lastNotify>>

\* the index of the first occurrence of k in s, 0 when absent
IndexOf(s, k) ==
  IF k \in Range(s) THEN CHOOSE i \in DOMAIN s :
                            s[i] = k /\ \A j \in 1..(i - 1) : s[j] # k
                   ELSE 0
RemoveAt(s, i) == SubSeq(s, 1, i - 1) \o SubSeq(s, i + 1, Len(s))

\* UnsubscribeUpdates(ch) for the watcher channel of subscription k
UnsubscribeUpdates(k) ==
  /\ IF IndexOf(watchers, k) # 0
       THEN /\ watchers' = RemoveAt(watchers, IndexOf(watchers, k))
            /\ wclosed' = [wclosed EXCEPT ![k] = TRUE]
       ELSE UNCHANGED <<watchers, wclosed>>
  /\ unsubCalls' = [unsubCalls EXCEPT ![k] = @ + 1]
  /\ UNCHANGED <<maps, history, wq, cq, cclosed, kind, fpc, fsnap, nSub,
                 panics, lastNotify>>

(***************************************************************************)
(* The readers of a subscription.                                          *)
(***************************************************************************)
\* handleSSE: case <-updates, until the handler returns (deferred Unsubscribe)
ReceiveSnapshot(k) ==
  /\ kind[k] = "map"
  /\ unsubCalls[k] = 0
  /\ cq[k] # <<>>
  /\ cq' = [cq EXCEPT ![k] = Tail(@)]
  /\ UNCHANGED <<maps, history, watchers, wq, wclosed, cclosed, kind, fpc,
                 fsnap, nSub, unsubCalls, panics,
                 lastNotify>>

\* the reader of the channel SubscribeUpdates returned
ReceiveUpdate(k) ==
  /\ kind[k] = "upd"
  /\ wq[k] # <<>>
  /\ wq' = [wq EXCEPT ![k] = Tail(@)]
  /\ UNCHANGED <<maps, history, watchers, wclosed, cq, cclosed, kind, fpc,
                 fsnap, nSub, unsubCalls, panics,
                 lastNotify>>

(***************************************************************************)
(* The scheduler at rest (the store driven by its callers alone).          *)
(***************************************************************************)
SchedulerOff ==
  /\ spc = "off"
  /\ spawnIdx = 0
  /\ wg = 0
  /\ mpc = <<>>
  /\ mres = <<>>
  /\ golangciLintMutex = 0
  /\ tickerOn = FALSE
  /\ tickerC = 0
  /\ cancelled = FALSE
  /\ ticks = 0
  /\ runs = <<>>
  /\ execCount = <<>>
  /\ updCount = <<>>

NoSubscriptions ==
  /\ wq = [k \in SubIds |-> <<>>]
  /\ wclosed = [k \in SubIds |-> FALSE]
  /\ cq = [k \in SubIds |-> <<>>]
  /\ cclosed = [k \in SubIds |-> FALSE]
  /\ kind = [k \in SubIds |-> "none"]
  /\ fpc = [k \in SubIds |-> "none"]
  /\ fsnap = [k \in SubIds |-> <<>>]
  /\ nSub = 0
  /\ unsubCalls = [k \in SubIds |-> 0]
  /\ panics = {}
  /\ lastNotify = [sent |-> {}, full |-> {}]

NoCalls ==
  /\ nUpd = [n \in StoreNames |-> 0]
  /\ latest = EmptyMap
  /\ snaps = <<>>
  /\ snapExpect = <<>>

\* no Check is called on its own
NoCheck ==
  /\ met = <<>>
  /\ got = Nil
\* neither the display nor the API server runs
NoStatus ==
  /\ main = <<>>
  /\ api = <<>>
\* the store's methods run as single steps
NoSteps ==
  /\ mu = <<>>
  /\ gos = <<>>
\* no delivery of a forwarder is recorded
NoDelivery ==
  /\ trigger = <<>>
  /\ delivered = <<>>
\* no deadline is timed
NoClock ==
  /\ now = 0
  /\ called = <<>>
  /\ deadline = <<>>
NoProgram == NoCheck /\ NoStatus /\ NoSteps /\ NoDelivery /\ NoClock

(***************************************************************************)
(* SpecStore: the store with its subscriptions, driven by its callers.     *)
(***************************************************************************)
\* Get(name) returns a Result of this status, message and time
Holds(name, status, message, stamp, type) ==
  /\ Get(name) # Nil
  /\ Get(name)[1].Type = type
  /\ Get(name)[1].Status = status
  /\ Get(name)[1].Message = message
  /\ Get(name)[1].Timestamp = stamp

\* the Result of the j-th check of name n: checks pass and fail in turn
NthResult(n, j) ==
  LET st == IF j % 2 = 1 THEN "ok" ELSE "fail"
  IN  Result(n, "quality", st, st, j)
\* the Result of the next check of name n
CallerResult(n) == NthResult(n, nUpd[n] + 1)
TotalUpdates == nUpd["api"] + nUpd["lint"]

InitStore ==
  NewStateStore /\ NoSubscriptions /\ NoCalls /\ SchedulerOff /\ NoProgram

CallUpdate ==
  \E n \in StoreNames :
    /\ TotalUpdates < MaxUpdates
    /\ Update(CallerResult(n))
    /\ nUpd' = [nUpd EXCEPT ![n] = @ + 1]
    /\ latest' = MapPut(latest, n, CallerResult(n))
    /\ UNCHANGED <<snaps, snapExpect, schedVars, progVars>>

CallSubscribe ==
  /\ nSub + 1 \in SubIds
  /\ Subscribe(nSub + 1)
  /\ UNCHANGED <<callerVars, schedVars, progVars>>

CallSubscribeUpdates ==
  /\ nSub + 1 \in SubIds
  /\ SubscribeUpdates(nSub + 1)
  /\ UNCHANGED <<callerVars, schedVars, progVars>>

CallUnsubscribe ==
  \E k \in SubIds :
    /\ kind[k] = "map"
    /\ unsubCalls[k] < MaxUnsubCalls
    /\ Unsubscribe(k)
    /\ UNCHANGED <<callerVars, schedVars, progVars>>

CallUnsubscribeUpdates ==
  \E k \in SubIds :
    /\ kind[k] = "upd"
    /\ unsubCalls[k] < MaxUnsubCalls
    /\ UnsubscribeUpdates(k)
    /\ UNCHANGED <<callerVars, schedVars, progVars>>

Forwarder ==
  \E k \in SubIds :
    /\ \/ ForwardReceive(k)
       \/ ForwardGetAll(k)
       \/ ForwardSend(k)
    /\ UNCHANGED <<callerVars, schedVars, progVars>>

Reader ==
  \E k \in SubIds :
    /\ \/ ReceiveSnapshot(k)
       \/ ReceiveUpdate(k)
    /\ UNCHANGED <<callerVars, schedVars, progVars>>

NextStore ==
  \/ CallUpdate
  \/ CallSubscribe
  \/ CallSubscribeUpdates
  \/ CallUnsubscribe
  \/ CallUnsubscribeUpdates
  \/ Forwarder
  \/ Reader

SpecStore == InitStore /\ [][NextStore]_vars

(***************************************************************************)
(* SpecFanout: one check reporting the same Result again and again to      *)
(* subscribers that are slow or never read, until queues are full.         *)
(***************************************************************************)
\* Update calls in one run of the fan-out
FanoutUpdates == 11

FanoutResult == Result("api", "rest", "ok", "HTTP 200", 1)

CallFanoutUpdate ==
  /\ nUpd["api"] < FanoutUpdates
  /\ Update(FanoutResult)
  /\ nUpd' = [nUpd EXCEPT !["api"] = @ + 1]
  /\ latest' = MapPut(latest, "api", FanoutResult)
  /\ UNCHANGED <<snaps, snapExpect, schedVars, progVars>>

NextFanout ==
  \/ CallFanoutUpdate
  \/ CallSubscribe
  \/ CallSubscribeUpdates
  \/ Forwarder
  \/ Reader

SpecFanout == InitStore /\ [][NextFanout]_vars

\* a caller's Update call returned in this step, for name n
UpdateReturned(n) == nUpd'[n] = nUpd[n] + 1

\* C3: Update never blocks on a subscriber: it can always run to its end,
\* and when a subscriber's queue already holds WatcherCap entries the
\* notification is dropped for that subscriber only; the Result is stored
\* and every other registered queue with room receives the notification.
C3_UpdateNeverBlocks ==
  [][/\ nUpd["api"] < FanoutUpdates => ENABLED CallFanoutUpdate
     /\ \A n \in StoreNames :
          UpdateReturned(n) =>
            /\ maps'[ResultsRef][n] = latest'[n]
            /\ Len(HistoryOf(history', n)) = Len(HistoryOf(history, n)) + 1
            /\ watchers' = watchers
            /\ \A w \in Range(watchers) :
                 wq'[w] = IF Len(wq[w]) >= WatcherCap
                            THEN wq[w]
                            ELSE Append(wq[w], StateUpdate(latest'[n]))]_vars

\* an Update dropped the notification of a full queue and delivered it to another
C3_Witness == lastNotify.full # {} /\ lastNotify.sent # {}

(***************************************************************************)
(* SpecSnapshot: callers that update the store, take GetAll maps and edit  *)
(* the maps they were given.                                               *)
(***************************************************************************)
\* Update calls in one run
SnapUpdates == 3
\* GetAll calls in one run
MaxSnaps == 2

\* what a caller writes into a map it got from GetAll
Edited(n) == Result(n, "quality", "warn", "edited", 0)

CallSnapUpdate ==
  \E n \in StoreNames :
    /\ TotalUpdates < SnapUpdates
    /\ Update(CallerResult(n))
    /\ nUpd' = [nUpd EXCEPT ![n] = @ + 1]
    /\ latest' = MapPut(latest, n, CallerResult(n))
    /\ UNCHANGED <<snaps, snapExpect, schedVars, progVars>>

\* m := store.GetAll()
CallGetAll ==
  /\ Len(snaps) < MaxSnaps
  /\ maps' = GetAll(maps).heap
  /\ snaps' = Append(snaps, GetAll(maps).ref)
  /\ snapExpect' = Append(snapExpect, results)
  /\ UNCHANGED <<history, watchers, wq, wclosed, subVars, panics, lastNotify,
                 nUpd, latest, schedVars, progVars>>

\* m[n] = r on a map m a GetAll call returned
CallerPut ==
  \E i \in DOMAIN snaps, n \in StoreNames :
    /\ maps' = [maps EXCEPT ![snaps[i]] = MapPut(@, n, Edited(n))]
    /\ snapExpect' = [snapExpect EXCEPT ![i] = MapPut(@, n, Edited(n))]
    /\ UNCHANGED <<history, watchers, wq, wclosed, subVars, panics, lastNotify,
                   nUpd, latest, snaps, schedVars, progVars>>

\* delete(m, n) on a map m a GetAll call returned
CallerDelete ==
  \E i \in DOMAIN snaps, n \in StoreNames :
    /\ maps' = [maps EXCEPT ![snaps[i]] = MapDelete(@, n)]
    /\ snapExpect' = [snapExpect EXCEPT ![i] = MapDelete(@, n)]
    /\ UNCHANGED <<history, watchers, wq, wclosed, subVars, panics, lastNotify,
                   nUpd, latest, snaps, schedVars, progVars>>

NextSnapshot ==
  \/ CallSnapUpdate
  \/ CallGetAll
  \/ CallerPut
  \/ CallerDelete

SpecSnapshot == InitStore /\ [][NextSnapshot]_vars

\* C7: after any sequence of Update calls Get(name) returns the Result passed
\* to the most recent Update for that name, nil for a name never updated, and
\* GetAll maps exactly the updated names to those Results.
C7_GetReturnsLatest ==
  /\ \A n \in StoreNames :
       Get(n) = IF n \in DOMAIN latest THEN Ptr(latest[n]) ELSE Nil
  /\ DOMAIN GetAllValue = {n \in StoreNames : nUpd[n] > 0}
  /\ \A n \in DOMAIN GetAllValue : GetAllValue[n] = latest[n]

\* one name was updated twice, the other never
C7_Witness ==
  \E n, m \in StoreNames :
    /\ nUpd[n] >= 2
    /\ nUpd[m] = 0
    /\ Get(n) = Ptr(NthResult(n, nUpd[n]))
    /\ Get(m) = Nil

\* a caller edited a map it holds in this step
CallerEdited == snaps' = snaps /\ snapExpect' # snapExpect

\* C9: the mapping GetAll returns shares no structure with the store's map:
\* every returned mapping holds what its owner expects (the store's entries
\* at the call, changed by the owner's own edits only, not by a later Update
\* nor by edits of another returned mapping), and an edit of a returned
\* mapping changes neither Get nor GetAll.
C9_GetAllIndependentCopy ==
  [][/\ \A i \in DOMAIN snaps' : maps'[snaps'[i]] = snapExpect'[i]
     /\ CallerEdited =>
          /\ GetAllValue' = GetAllValue
          /\ \A n \in StoreNames : Get(n)' = Get(n)]_vars

\* a returned mapping holds an edited entry and an entry older than the store's
C9_Witness ==
  \E i \in DOMAIN snaps :
    LET m == maps[snaps[i]]
    IN  /\ \E n \in DOMAIN m : m[n] = Edited(n)
        /\ \E n \in DOMAIN m :
             /\ m[n] # Edited(n)
             /\ m[n].Timestamp < results[n].Timestamp

(***************************************************************************)
(* SpecHistory: the store updated often enough to fill a history.          *)
(***************************************************************************)
\* Update calls per name in one run
HistUpdates == 101

CallHistUpdate ==
  \E n \in StoreNames :
    /\ nUpd[n] < HistUpdates
    /\ Update(CallerResult(n))
    /\ nUpd' = [nUpd EXCEPT ![n] = @ + 1]
    /\ latest' = MapPut(latest, n, CallerResult(n))
    /\ UNCHANGED <<snaps, snapExpect, schedVars, progVars>>

NextHistory == CallHistUpdate

SpecHistory == InitStore /\ [][NextHistory]_vars

Min(a, b) == IF a < b THEN a ELSE b

\* C8: for each name the history holds the Results of the most recent
\* min(n, HistoryCap) Updates for that name in arrival order, n being the
\* number of Updates for that name so far.
C8_HistoryKeepsLastHundred ==
  \A n \in StoreNames :
    LET h == HistoryOf(history, n)
        kept == Min(nUpd[n], HistoryCap)
    IN  /\ Len(h) = kept
        /\ \A i \in 1..kept : h[i].Result = NthResult(n, nUpd[n] - kept + i)

\* a name has had one Update more than the history keeps: the oldest is gone
C8_Witness ==
  \E n \in StoreNames :
    /\ nUpd[n] = HistoryCap + 1
    /\ Len(history[n]) = HistoryCap
    /\ history[n][1].Result = NthResult(n, 2)

(***************************************************************************)
(* Claims about Unsubscribe and the closing of queues (SpecStore).         *)
(***************************************************************************)
NoRepeatedUnsubscribe == \A k \in SubIds : unsubCalls[k] <= 1

\* C4: Unsubscribe(ch) removes from the subscriber list and closes the queue
\* created by the Subscribe call for that same ch, and no other: as long as no
\* subscription is unsubscribed twice, a subscription's internal queue is
\* closed exactly when it has been unsubscribed, and registered exactly when
\* it has not.
C4_UnsubscribeClosesOwnQueue ==
  NoRepeatedUnsubscribe =>
    \A k \in SubIds :
      kind[k] # "none" =>
        /\ wclosed[k] <=> (unsubCalls[k] > 0)
        /\ (k \in Range(watchers)) <=> (unsubCalls[k] = 0)

\* C5: once a delivery queue has been closed by Unsubscribe no send is ever
\* attempted on it, neither by Update on the internal queue nor by the
\* forwarding goroutine on the caller's channel: no send ever finds its
\* channel closed.
C5_NoSendOnClosedQueue ==
  \A p \in panics : p[1] # "send on closed channel"

\* C6: Unsubscribe is idempotent: a call for a subscription that has already
\* been unsubscribed raises no fault and changes neither the subscriber list
\* nor any queue.
C6_UnsubscribeIdempotent ==
  [][\A k \in SubIds :
       (unsubCalls[k] >= 1 /\ unsubCalls'[k] = unsubCalls[k] + 1) =>
         /\ watchers' = watchers
         /\ wclosed' = wclosed
         /\ cclosed' = cclosed
         /\ panics' = panics]_vars

(***************************************************************************)
(* Monitors                                                                *)
(***************************************************************************)
\* strings.Contains on strings written as sequences of characters
Contains(str, sub) ==
  \E i \in 1..(Len(str) - Len(sub) + 1) : SubSeq(str, i, i + Len(sub) - 1) = sub

StrGolangciLint == <<"g","o","l","a","n","g","c","i","-","l","i","n","t">>
StrLint == <<"l","i","n","t">>

\* the registered monitors, in the order Engine.Initialize builds them:
\* a REST service, then `golangci-lint run`, `make lint` and `go test`
Monitors ==
  << [name |-> "api", type |-> "rest", command |-> <<>>, args |-> <<>>],
     [name |-> "golangci", type |-> "quality", command |-> StrGolangciLint,
      args |-> << <<"r","u","n">> >>],
     [name |-> "lint", type |-> "quality", command |-> <<"m","a","k","e">>,
      args |-> << StrLint >>],
     [name |-> "test", type |-> "quality", command |-> <<"g","o">>,
      args |-> << <<"t","e","s","t">> >>] >>
MonitorIds == DOMAIN Monitors

\* isGolangciLint taking every command for a lint command
isGolangciLintAlways(m) == TRUE
\* QualityMonitor.isGolangciLint
isGolangciLint(m) ==
  \/ Contains(m.command, StrGolangciLint)
  \/ \E a \in DOMAIN m.args : Contains(m.args[a], StrLint)

\* whether Check of monitor i takes golangciLintMutex (a RESTMonitor never does)
TakesLintMutex(i) ==
  Monitors[i].type = "quality" /\ isGolangciLint(Monitors[i])

\* the mutex taken without waiting for its holder
LockNoWait(i) == golangciLintMutex' = i
\* golangciLintMutex.Lock() by the worker of monitor i
Lock(i) ==
  /\ golangciLintMutex = 0
  /\ golangciLintMutex' = i

\* fmt.Sprintf(format, arg): the text of the format, then the argument's text
Sprintf(text, arg) == <<text, arg>>
\* len(message) == 0 for a message built by Sprintf
IsEmptyString(msg) == \A p \in Range(msg) : p = ""

\* what a check meets in one execution.  A request: the URL does not parse,
\* the connection is refused, the deadline passes, ctx is cancelled, or the
\* service answers.  A command: it cannot be started, it exits, the deadline
\* passes, or ctx is cancelled.
RESTOutcomes ==
  {"badurl", "refused", "timeout", "cancelled", "http200", "http404", "http503"}
QualityOutcomes == {"spawn", "exit0", "exit1", "timeout", "cancelled"}

\* resp.StatusCode of an answer
StatusCode(o) ==
  CASE o = "http200" -> 200
    [] o = "http404" -> 404
    [] o = "http503" -> 503

\* err.Error() of the error NewRequestWithContext, client.Do or cmd.Run returns
ErrText(o) ==
  CASE o = "badurl" -> "invalid URL"
    [] o = "refused" -> "connection refused"
    [] o = "spawn" -> "executable file not found"
    [] o = "exit1" -> "exit status 1"
    [] o = "timeout" -> "context deadline exceeded"
    [] o = "cancelled" -> "context canceled"

\* what Check returns: (result, err)
Return(result, err) == [result |-> result, err |-> err]

\* a Monitor of another implementation: Check hands its error to the caller
OtherOutcomes == {"error", "pass"}
OtherCheck(m, o, stamp) ==
  IF o = "error"
    THEN Return(Nil, Ptr("check broke"))
    ELSE Return(Ptr(Result(m.name, m.type, "ok", Sprintf("pass", ""), stamp)),
                Nil)

\* context.DeadlineExceeded and context.Canceled, the values of checkCtx.Err()
DeadlineExceeded == "context deadline exceeded"
Canceled == "context canceled"

\* a bytes.Buffer: Len() and String()
Buffer(len, text) == [Len |-> len, String |-> text]
NoOutput == Buffer(0, "")

\* one execution of RESTMonitor.Check: the err of NewRequestWithContext, the
\* err of client.Do, checkCtx.Err() when Do has returned, resp.StatusCode
RESTExecution(reqErr, doErr, ctxErr, code) ==
  [reqErr |-> reqErr, doErr |-> doErr, ctxErr |-> ctxErr, code |-> code]

\* one execution of QualityMonitor.Check: the err of cmd.Run, whether it is an
\* *exec.ExitError and its ExitCode(), checkCtx.Err() when Run has returned,
\* and the two buffers
QualityExecution(err, isExitError, exitCode, ctxErr, stderr, stdout) ==
  [err |-> err, isExitError |-> isExitError, exitCode |-> exitCode,
   ctxErr |-> ctxErr, stderr |-> stderr, stdout |-> stdout]

\* the execution in which a request meets outcome o
RESTMeets(o) ==
  RESTExecution(IF o = "badurl" THEN Ptr(ErrText(o)) ELSE Nil,
                IF o \in {"refused", "timeout", "cancelled"}
                  THEN Ptr(ErrText(o)) ELSE Nil,
                CASE o = "timeout" -> Ptr(DeadlineExceeded)
                  [] o = "cancelled" -> Ptr(Canceled)
                  [] OTHER -> Nil,
                IF o \in {"http200", "http404", "http503"}
                  THEN StatusCode(o) ELSE 0)

\* the execution in which a command meets outcome o: a command that overruns
\* is killed, a command cancelled before it starts is not run
QualityMeets(o) ==
  CASE o = "exit0" ->
         QualityExecution(Nil, FALSE, 0, Nil, NoOutput, Buffer(2, "ok"))
    [] o = "exit1" ->
         QualityExecution(Ptr(ErrText(o)), TRUE, 1, Nil,
                          Buffer(6, "errors"), NoOutput)
    [] o = "spawn" ->
         QualityExecution(Ptr(ErrText(o)), FALSE, 0, Nil, NoOutput, NoOutput)
    [] o = "timeout" ->
         QualityExecution(Ptr("signal: killed"), TRUE, -1,
                          Ptr(DeadlineExceeded), Buffer(7, "partial"), NoOutput)
    [] o = "cancelled" ->
         QualityExecution(Ptr(ErrText(o)), FALSE, 0, Ptr(Canceled),
                          NoOutput, NoOutput)

\* result.Status = ...; result.Message = ...
Verdict(result, status, message) ==
  [result EXCEPT !.Status = status, !.Message = message]
\* result.Metadata[key] = value
SetMetadata(result, key, value) ==
  [result EXCEPT !.Metadata = MapPut(@, key, value)]

\* the classes of status codes with 400 counted as a success
ClassifyUpTo400(result, code) ==
  IF code >= 200 /\ code <= 400
    THEN Verdict(result, "ok", Sprintf("HTTP ", ToString(code)))
  ELSE IF code > 400 /\ code < 500
    THEN Verdict(result, "warn",
                 Sprintf("HTTP (client error) ", ToString(code)))
  ELSE Verdict(result, "fail", Sprintf("HTTP (server error) ", ToString(code)))
\* RESTMonitor.Check: the status and message for resp.StatusCode
Classify(result, code) ==
  IF code >= 200 /\ code < 400
    THEN Verdict(result, "ok", Sprintf("HTTP ", ToString(code)))
  ELSE IF code >= 400 /\ code < 500
    THEN Verdict(result, "warn",
                 Sprintf("HTTP (client error) ", ToString(code)))
  ELSE Verdict(result, "fail", Sprintf("HTTP (server error) ", ToString(code)))

\* RESTMonitor.Check handing the error of client.Do to its caller
RESTCheckPropagate(m, x, stamp) ==
  IF x.reqErr = Nil /\ x.doErr # Nil
    THEN Return(Nil, x.doErr)
    ELSE Return(Ptr(Result(m.name, "rest", "ok",
                           Sprintf("HTTP ", ToString(x.code)), stamp)), Nil)
\* RESTMonitor.Check in execution x; stamp is its time.Now()
RESTCheck(m, x, stamp) ==
  IF x.reqErr # Nil
    THEN Return(Ptr(Result(m.name, "rest", "fail",
                           Sprintf("Failed to create request: ", x.reqErr[1]),
                           stamp)), Nil)
    ELSE
      LET result ==
            SetMetadata(SetMetadata(Result(m.name, "rest", "", "", stamp),
                                    "url", "url+health"),
                        "timeout", "timeout")
      IN  IF x.doErr # Nil
            THEN IF x.ctxErr = Ptr(DeadlineExceeded)
                   THEN Return(Ptr(Verdict(result, "fail",
                                 Sprintf("Request timed out after ", "timeout"))),
                               Nil)
                   ELSE Return(Ptr(Verdict(result, "fail",
                                 Sprintf("Request failed: ", x.doErr[1]))), Nil)
            ELSE
              Return(Ptr(Classify(SetMetadata(result, "status_code", x.code),
                                  x.code)), Nil)

\* QualityMonitor.Check taking for a timeout only a Run error that is itself
\* the deadline's error
QualityCheckByErrText(m, x, stamp) ==
  LET result == SetMetadata(Result(m.name, "quality", "", "", stamp),
                            "command", <<m.command, m.args>>)
  IN  IF x.err # Nil
        THEN IF x.err = Ptr(DeadlineExceeded)
               THEN Return(Ptr(Verdict(result, "fail",
                             Sprintf("Command timed out after ", "timeout"))),
                           Nil)
               ELSE Return(Ptr(Verdict(result, "fail",
                             Sprintf("Command failed: ", x.err[1]))), Nil)
        ELSE Return(Ptr(Verdict(result, "ok",
                      Sprintf("Check passed in ", "duration"))), Nil)
\* QualityMonitor.Check in execution x, from cmd.Run() on
QualityCheck(m, x, stamp) ==
  LET result == SetMetadata(Result(m.name, "quality", "", "", stamp),
                            "command", <<m.command, m.args>>)
  IN  IF x.err # Nil
        THEN IF x.ctxErr = Ptr(DeadlineExceeded)
               THEN Return(Ptr(Verdict(result, "fail",
                             Sprintf("Command timed out after ", "timeout"))),
                           Nil)
               ELSE
                 LET failed == Verdict(result, "fail",
                                       Sprintf("Command failed: ", x.err[1]))
                     diagnosed == IF x.stderr.Len > 0
                                    THEN SetMetadata(failed, "stderr",
                                                     x.stderr.String)
                                    ELSE failed
                 IN  IF x.isExitError
                       THEN Return(Ptr(SetMetadata(diagnosed, "exit_code",
                                                   x.exitCode)), Nil)
                       ELSE Return(Ptr(diagnosed), Nil)
        ELSE
          LET passed == Verdict(result, "ok",
                                Sprintf("Check passed in ", "duration"))
          IN  IF x.stdout.Len > 0 /\ x.stdout.Len < 1024
                THEN Return(Ptr(SetMetadata(passed, "output", x.stdout.String)),
                            Nil)
                ELSE Return(Ptr(passed), Nil)

\* m.Check(ctx) of monitor m meeting outcome o
Check(m, o, stamp) ==
  CASE m.type = "rest" -> RESTCheck(m, RESTMeets(o), stamp)
    [] m.type = "quality" -> QualityCheck(m, QualityMeets(o), stamp)
    [] OTHER -> OtherCheck(m, o, stamp)

\* runChecks: the Result built for a Check that returned an error
ErrorResult(m, err, stamp) ==
  Result(m.name, m.type, "fail", Sprintf("Monitor error: ", err[1]), stamp)

\* runChecks: if err != nil { result = &monitors.Result{...} }; the Result
\* the worker passes to Update
WorkerResult(m, ret, stamp) ==
  IF ret.err # Nil THEN ErrorResult(m, ret.err, stamp) ELSE ret.result[1]

\* what the monitored service and commands do in one run of the scheduler:
\* the service is up or down, golangci-lint overruns its timeout, make lint
\* passes, go test fails
Behaviours ==
  << {"http200", "http503"}, {"timeout"}, {"exit0"}, {"exit1"} >>

\* how a check can end: the HTTP exchange or the command, or the abort by ctx
Outcomes(i) == IF cancelled THEN {"cancelled"} ELSE Behaviours[i]

\* the Result the worker of monitor i has after a Check that met outcome o;
\* its time stamp is the number of the run
CheckResult(i, o) ==
  WorkerResult(Monitors[i], Check(Monitors[i], o, runs[i]), runs[i])

(***************************************************************************)
(* Scheduler                                                               *)
(***************************************************************************)
\* runChecks passes in one run of Start
MaxTicks == 3

storeFrame == <<maps, history, watchers, wq, wclosed, cq, cclosed, kind, fpc,
                fsnap, nSub, unsubCalls, panics, lastNotify>>

\* the worker goroutine of monitor i: m.Check(ctx) up to the start of the
\* command or request, after the lint mutex when the monitor takes it
CheckBegin(i) ==
  /\ mpc[i] = "start"
  /\ IF TakesLintMutex(i) THEN Lock(i) ELSE UNCHANGED golangciLintMutex
  /\ mpc' = [mpc EXCEPT ![i] = "running"]
  /\ runs' = [runs EXCEPT ![i] = @ + 1]
  /\ execCount' = [execCount EXCEPT ![i] = @ + 1]
  /\ UNCHANGED <<storeFrame, callerVars, progVars, spc, spawnIdx, wg, mres,
                 tickerOn, tickerC, cancelled, ticks, updCount>>

\* a worker that runs a failed check once more within the pass
CheckEndRetry(i, o) ==
  /\ mpc[i] = "running"
  /\ o \in Outcomes(i)
  /\ IF CheckResult(i, o).Status = "fail" /\ execCount[i] < 2
       THEN /\ mpc' = [mpc EXCEPT ![i] = "start"]
            /\ UNCHANGED mres
       ELSE /\ mpc' = [mpc EXCEPT ![i] = "update"]
            /\ mres' = [mres EXCEPT ![i] = Ptr(Check(Monitors[i], o, runs[i]))]
  /\ golangciLintMutex' = IF TakesLintMutex(i) THEN 0 ELSE golangciLintMutex
  /\ UNCHANGED <<storeFrame, callerVars, progVars, spc, spawnIdx, wg,
                 tickerOn, tickerC, cancelled, ticks, runs, execCount,
                 updCount>>
\* Check returning without the deferred Unlock
CheckEndKeepLock(i, o) ==
  /\ mpc[i] = "running"
  /\ o \in Outcomes(i)
  /\ mpc' = [mpc EXCEPT ![i] = "update"]
  /\ mres' = [mres EXCEPT ![i] = Ptr(Check(Monitors[i], o, runs[i]))]
  /\ UNCHANGED <<storeFrame, callerVars, progVars, spc, spawnIdx, wg,
                 golangciLintMutex, tickerOn, tickerC, cancelled, ticks, runs,
                 execCount, updCount>>
\* Check whose Unlock runs only on the path of a command that succeeded
CheckReturnsUnlockOnSuccess(i, o) ==
  /\ mpc[i] = "running"
  /\ mpc' = [mpc EXCEPT ![i] = "update"]
  /\ mres' = [mres EXCEPT ![i] = Ptr(Check(Monitors[i], o, runs[i]))]
  /\ golangciLintMutex' = IF TakesLintMutex(i) /\ o = "exit0"
                            THEN 0 ELSE golangciLintMutex
  /\ UNCHANGED <<storeFrame, callerVars, progVars, spc, spawnIdx, wg,
                 tickerOn, tickerC, cancelled, ticks, runs, execCount,
                 updCount>>
\* Check builds the Result of outcome o and returns, the deferred Unlock
\* releasing the lint mutex
CheckReturns(i, o) ==
  /\ mpc[i] = "running"
  /\ mpc' = [mpc EXCEPT ![i] = "update"]
  /\ mres' = [mres EXCEPT ![i] = Ptr(Check(Monitors[i], o, runs[i]))]
  /\ golangciLintMutex' = IF TakesLintMutex(i) THEN 0 ELSE golangciLintMutex
  /\ UNCHANGED <<storeFrame, callerVars, progVars, spc, spawnIdx, wg,
                 tickerOn, tickerC, cancelled, ticks, runs, execCount,
                 updCount>>

\* the command or request ends with outcome o, one of those of its monitor
CheckEnd(i, o) ==
  /\ o \in Outcomes(i)
  /\ CheckReturns(i, o)

\* a worker that publishes only after the monitors registered before it
PublishInOrder(i) ==
  /\ mpc[i] = "update"
  /\ \A j \in 1..(i - 1) : mpc[j] = "idle"
  /\ Update(WorkerResult(Monitors[i], mres[i][1], runs[i]))
  /\ mpc' = [mpc EXCEPT ![i] = "idle"]
  /\ mres' = [mres EXCEPT ![i] = Nil]
  /\ wg' = wg - 1
  /\ updCount' = [updCount EXCEPT ![i] = @ + 1]
  /\ UNCHANGED <<callerVars, progVars, spc, spawnIdx, golangciLintMutex,
                 tickerOn, tickerC, cancelled, ticks, runs, execCount>>
\* if err != nil { result = ... }; s.state.Update(result), then the deferred
\* wg.Done()
Publish(i) ==
  /\ mpc[i] = "update"
  /\ Update(WorkerResult(Monitors[i], mres[i][1], runs[i]))
  /\ mpc' = [mpc EXCEPT ![i] = "idle"]
  /\ mres' = [mres EXCEPT ![i] = Nil]
  /\ wg' = wg - 1
  /\ updCount' = [updCount EXCEPT ![i] = @ + 1]
  /\ UNCHANGED <<callerVars, progVars, spc, spawnIdx, golangciLintMutex,
                 tickerOn, tickerC, cancelled, ticks, runs, execCount>>

Worker(i) ==
  \/ CheckBegin(i)
  \/ \E o \in Outcomes(i) : CheckEnd(i, o)
  \/ Publish(i)

\* runChecks is entered: var wg sync.WaitGroup (at most MaxTicks passes are
\* followed)
EnterRunChecks ==
  /\ ticks < MaxTicks
  /\ spc' = "spawn"
  /\ spawnIdx' = 1
  /\ ticks' = ticks + 1
  /\ execCount' = [i \in MonitorIds |-> 0]
  /\ updCount' = [i \in MonitorIds |-> 0]

\* Start: the initial s.runChecks(ctx)
StartInitial ==
  /\ spc = "start"
  /\ EnterRunChecks
  /\ UNCHANGED <<storeFrame, callerVars, progVars, wg, mpc, mres,
                 golangciLintMutex, tickerOn, tickerC, cancelled, runs>>

\* the goroutine started without wg.Add(1)
SpawnDetached ==
  /\ spc = "spawn"
  /\ spawnIdx \in MonitorIds
  /\ wg' = wg
  /\ mpc' = [mpc EXCEPT ![spawnIdx] = "start"]
  /\ spawnIdx' = spawnIdx + 1
  /\ spc' = IF spawnIdx = Len(Monitors) THEN "wait" ELSE "spawn"
  /\ UNCHANGED <<storeFrame, callerVars, progVars, mres, golangciLintMutex,
                 tickerOn, tickerC, cancelled, ticks, runs, execCount,
                 updCount>>
\* runChecks: wg.Add(1); go func(m) {...}(monitor), for the next monitor
Spawn ==
  /\ spc = "spawn"
  /\ spawnIdx \in MonitorIds
  /\ wg' = wg + 1
  /\ mpc' = [mpc EXCEPT ![spawnIdx] = "start"]
  /\ spawnIdx' = spawnIdx + 1
  /\ spc' = IF spawnIdx = Len(Monitors) THEN "wait" ELSE "spawn"
  /\ UNCHANGED <<storeFrame, callerVars, progVars, mres, golangciLintMutex,
                 tickerOn, tickerC, cancelled, ticks, runs, execCount,
                 updCount>>

\* runChecks returning without wg.Wait()
WaitReturnsEarly ==
  /\ spc = "wait"
  /\ spc' = "select"
  /\ tickerOn' = TRUE
  /\ UNCHANGED <<storeFrame, callerVars, progVars, spawnIdx, wg, mpc, mres,
                 golangciLintMutex, tickerC, cancelled, ticks, runs, execCount,
                 updCount>>
\* runChecks: wg.Wait() returns; after the initial pass Start makes its ticker
WaitReturns ==
  /\ spc = "wait"
  /\ wg = 0
  /\ spc' = "select"
  /\ tickerOn' = TRUE
  /\ UNCHANGED <<storeFrame, callerVars, progVars, spawnIdx, wg, mpc, mres,
                 golangciLintMutex, tickerC, cancelled, ticks, runs, execCount,
                 updCount>>

\* the ticker fires: a tick is put in ticker.C unless one is waiting there
TickerFires ==
  /\ tickerOn
  /\ tickerC = 0
  /\ tickerC' = 1
  /\ UNCHANGED <<storeFrame, callerVars, progVars, spc, spawnIdx, wg, mpc,
                 mres, golangciLintMutex, tickerOn, cancelled, ticks, runs,
                 execCount, updCount>>

\* a pass started on a tick that is left in ticker.C
SelectTickKeep ==
  /\ spc = "select"
  /\ tickerC = 1
  /\ tickerC' = tickerC
  /\ EnterRunChecks
  /\ UNCHANGED <<storeFrame, callerVars, progVars, wg, mpc, mres,
                 golangciLintMutex, tickerOn, cancelled, runs>>
\* a pass started at the timer fire whether or not the last pass has returned
SelectTickAnytime ==
  /\ spc \in {"select", "wait"}
  /\ tickerC = 1
  /\ tickerC' = 0
  /\ EnterRunChecks
  /\ UNCHANGED <<storeFrame, callerVars, progVars, wg, mpc, mres,
                 golangciLintMutex, tickerOn, cancelled, runs>>
\* Start: case <-ticker.C: s.runChecks(ctx)
SelectTick ==
  /\ spc = "select"
  /\ tickerC = 1
  /\ tickerC' = 0
  /\ EnterRunChecks
  /\ UNCHANGED <<storeFrame, callerVars, progVars, wg, mpc, mres,
                 golangciLintMutex, tickerOn, cancelled, runs>>

\* ctx.Err()
CtxErr == IF cancelled THEN Ptr("context canceled") ELSE Nil

\* a loop that also ends when a stored Result is a failure
SelectDoneOnFailure ==
  /\ spc = "select"
  /\ \/ cancelled
     \/ \E n \in DOMAIN results : results[n].Status = "fail"
  /\ spc' = "returned"
  /\ tickerOn' = FALSE
  /\ UNCHANGED <<storeFrame, callerVars, progVars, spawnIdx, wg, mpc, mres,
                 golangciLintMutex, tickerC, cancelled, ticks, runs, execCount,
                 updCount>>
\* Start: case <-ctx.Done(): return ctx.Err(), the deferred ticker.Stop()
SelectDone ==
  /\ spc = "select"
  /\ cancelled
  /\ spc' = "returned"
  /\ tickerOn' = FALSE
  /\ UNCHANGED <<storeFrame, callerVars, progVars, spawnIdx, wg, mpc, mres,
                 golangciLintMutex, tickerC, cancelled, ticks, runs, execCount,
                 updCount>>

\* the owner of ctx cancels it
Cancel ==
  /\ ~cancelled
  /\ cancelled' = TRUE
  /\ UNCHANGED <<storeFrame, callerVars, progVars, spc, spawnIdx, wg, mpc,
                 mres, golangciLintMutex, tickerOn, tickerC, ticks, runs,
                 execCount, updCount>>

NewScheduler ==
  /\ spc = "start"
  /\ spawnIdx = 1
  /\ wg = 0
  /\ mpc = [i \in MonitorIds |-> "idle"]
  /\ mres = [i \in MonitorIds |-> Nil]
  /\ golangciLintMutex = 0
  /\ tickerOn = FALSE
  /\ tickerC = 0
  /\ cancelled = FALSE
  /\ ticks = 0
  /\ runs = [i \in MonitorIds |-> 0]
  /\ execCount = [i \in MonitorIds |-> 0]
  /\ updCount = [i \in MonitorIds |-> 0]

Init ==
  NewStateStore /\ NoSubscriptions /\ NoCalls /\ NewScheduler /\ NoProgram

Workers == \E i \in MonitorIds : Worker(i)

Next ==
  \/ StartInitial
  \/ Spawn
  \/ WaitReturns
  \/ TickerFires
  \/ SelectTick
  \/ SelectDone
  \/ Cancel
  \/ Workers

Spec == Init /\ [][Next]_vars

\* The Go runtime runs every goroutine that can run: the scheduler goroutine
\* and every worker take their next step; a command or request that is
\* aborted or has its deadline returns.  The select of Start takes a ready
\* case at random, so a case that is ready again and again is taken.  The
\* timer and the owner of ctx are under no obligation.
Fairness ==
  /\ WF_vars(StartInitial)
  /\ WF_vars(Spawn)
  /\ WF_vars(WaitReturns)
  /\ SF_vars(SelectDone)
  /\ \A i \in MonitorIds : WF_vars(Worker(i))

SpecLive == Spec /\ Fairness

(***************************************************************************)
(* SpecFaults: the body of a runChecks worker (Check, the conversion of a  *)
(* returned error, Update) run for one monitor of each implementation,     *)
(* meeting every outcome.                                                  *)
(***************************************************************************)
\* executions in one run
MaxFaultRuns == 2

\* a REST monitor, a command monitor and a Monitor of another implementation
FaultMonitors ==
  << Monitors[1], Monitors[2], [name |-> "plugin", type |-> "grpc"] >>
FaultIds == DOMAIN FaultMonitors

FaultOutcomes(i) ==
  CASE FaultMonitors[i].type = "rest" -> RESTOutcomes
    [] FaultMonitors[i].type = "quality" -> QualityOutcomes
    [] OTHER -> OtherOutcomes

InitFaults ==
  /\ NewStateStore /\ NoSubscriptions /\ NoCalls /\ NoProgram
  /\ spc = "off"
  /\ spawnIdx = 0
  /\ wg = 0
  /\ mpc = [i \in FaultIds |-> "idle"]
  /\ mres = [i \in FaultIds |-> Nil]
  /\ golangciLintMutex = 0
  /\ tickerOn = FALSE
  /\ tickerC = 0
  /\ cancelled = FALSE
  /\ ticks = 0
  /\ runs = [i \in FaultIds |-> 0]
  /\ execCount = [i \in FaultIds |-> 0]
  /\ updCount = [i \in FaultIds |-> 0]

\* result, err := m.Check(ctx), the check meeting outcome o
FaultCheck ==
  \E i \in FaultIds : \E o \in FaultOutcomes(i) :
    /\ mpc[i] = "idle"
    /\ runs[1] + runs[2] + runs[3] < MaxFaultRuns
    /\ runs' = [runs EXCEPT ![i] = @ + 1]
    /\ execCount' = [execCount EXCEPT ![i] = @ + 1]
    /\ mres' = [mres EXCEPT ![i] = Ptr(Check(FaultMonitors[i], o, runs'[i]))]
    /\ mpc' = [mpc EXCEPT ![i] = "update"]
    /\ UNCHANGED <<storeFrame, callerVars, progVars, spc, spawnIdx, wg,
                   golangciLintMutex, tickerOn, tickerC, cancelled, ticks,
                   updCount>>

\* if err != nil { result = ... }; s.state.Update(result)
FaultPublish ==
  \E i \in FaultIds :
    /\ mpc[i] = "update"
    /\ Update(WorkerResult(FaultMonitors[i], mres[i][1], runs[i]))
    /\ mpc' = [mpc EXCEPT ![i] = "idle"]
    /\ mres' = [mres EXCEPT ![i] = Nil]
    /\ updCount' = [updCount EXCEPT ![i] = @ + 1]
    /\ UNCHANGED <<callerVars, progVars, spc, spawnIdx, wg, golangciLintMutex,
                   tickerOn, tickerC, cancelled, ticks, runs, execCount>>

NextFaults ==
  \/ FaultCheck
  \/ FaultPublish

SpecFaults == InitFaults /\ [][NextFaults]_vars

\* the faults a check can meet inside Check
IsFault(o) ==
  o \in {"badurl", "refused", "spawn", "exit1", "timeout", "cancelled"}

\* C20: every fault inside Check (a request that cannot be built, a failed
\* exchange, a command that cannot be started or exits non-zero, a passed
\* deadline) makes Check return a Result with status fail and a non-empty
\* message, and no error; and whatever Check returned, the worker calls
\* Update once: with a fail Result under the check's name and with a
\* non-empty message when Check returned an error, with Check's Result
\* otherwise.
C20_FaultsBecomeFailResults ==
  [][\A i \in FaultIds :
       LET m == FaultMonitors[i]
       IN  /\ \A o \in FaultOutcomes(i) :
                (IsFault(o) /\ mres'[i] = Ptr(Check(m, o, runs'[i]))) =>
                  /\ mres'[i][1].err = Nil
                  /\ mres'[i][1].result # Nil
                  /\ mres'[i][1].result[1].Name = m.name
                  /\ mres'[i][1].result[1].Status = "fail"
                  /\ ~IsEmptyString(mres'[i][1].result[1].Message)
           /\ (mres[i] # Nil /\ mres'[i] = Nil) =>
                /\ Len(HistoryOf(history', m.name)) =
                     Len(HistoryOf(history, m.name)) + 1
                /\ updCount'[i] = execCount'[i]
                /\ IF mres[i][1].err # Nil
                     THEN /\ maps'[ResultsRef][m.name].Name = m.name
                          /\ maps'[ResultsRef][m.name].Type = m.type
                          /\ maps'[ResultsRef][m.name].Status = "fail"
                          /\ ~IsEmptyString(maps'[ResultsRef][m.name].Message)
                     ELSE maps'[ResultsRef][m.name] = mres[i][1].result[1]]_vars

\* a request that timed out and a Check that returned an error have both
\* been stored as fail Results under their checks' names
C20_Witness ==
  /\ Holds("api", "fail",
           Sprintf("Request timed out after ", "timeout"),
           1, "rest")
  /\ Holds("plugin", "fail",
           Sprintf("Monitor error: ", "check broke"),
           1, "grpc")

(***************************************************************************)
(* SpecCheck: one Check of one monitor, over the executions it can meet,   *)
(* and the worker's Update of what it returned.                            *)
(***************************************************************************)
\* the status codes a response can carry: the ends of each class and beyond
HTTPCodes == {100, 199, 200, 204, 301, 399, 400, 404, 499, 500, 503, 599, 600}

\* checkCtx.Err(): nil, or the first of deadline and cancellation of ctx
CtxErrs == {Nil, Ptr(DeadlineExceeded), Ptr(Canceled)}

\* the executions of RESTMonitor.Check: the request cannot be built; Do fails
\* on the transport or on checkCtx; Do returns a response
RESTExecutions ==
  {RESTExecution(Ptr("invalid URL"), Nil, c, 0) : c \in CtxErrs}
  \cup {RESTExecution(Nil, Ptr("connection refused"), c, 0) : c \in CtxErrs}
  \cup {RESTExecution(Nil, c, c, 0) : c \in CtxErrs \ {Nil}}
  \cup {RESTExecution(Nil, Nil, c, code) : c \in CtxErrs, code \in HTTPCodes}

\* what a command leaves in stderr and in stdout (1024 bytes are too large)
Stderrs == {NoOutput, Buffer(6, "errors")}
Stdouts == {NoOutput, Buffer(2, "ok"), Buffer(1023, "report"),
            Buffer(1024, "long report")}
\* ExitCode() of an *exec.ExitError: the exit status, -1 for a killed process
ExitCodes == {1, 2, -1}

\* the executions of QualityMonitor.Check: Run returns nil; Run returns an
\* *exec.ExitError; Run returns another error (the command is not found,
\* checkCtx was done before the start)
QualityExecutions ==
  {QualityExecution(Nil, FALSE, 0, c, e, out) :
     c \in CtxErrs, e \in Stderrs, out \in Stdouts}
  \cup {QualityExecution(Ptr("exit status"), TRUE, n, c, e, out) :
          n \in ExitCodes, c \in CtxErrs, e \in Stderrs, out \in Stdouts}
  \cup {QualityExecution(Ptr("executable file not found"), FALSE, 0, c, e,
                         NoOutput) : c \in CtxErrs, e \in Stderrs}
  \cup {QualityExecution(c, FALSE, 0, c, NoOutput, NoOutput) :
          c \in CtxErrs \ {Nil}}

Executions(i) ==
  IF Monitors[i].type = "rest" THEN RESTExecutions ELSE QualityExecutions

\* m.Check(ctx) of monitor i in execution x
CheckIn(i, x) ==
  IF Monitors[i].type = "rest"
    THEN RESTCheck(Monitors[i], x, 1)
    ELSE QualityCheck(Monitors[i], x, 1)

InitCheck ==
  /\ NewStateStore /\ NoSubscriptions /\ NoCalls /\ SchedulerOff
  /\ \E i \in MonitorIds : \E x \in Executions(i) :
       met = [monitor |-> i, execution |-> x]
  /\ got = Nil
  /\ NoStatus /\ NoSteps /\ NoDelivery /\ NoClock

\* result, err := m.Check(ctx)
CallCheck ==
  /\ got = Nil
  /\ got' = Ptr(CheckIn(met.monitor, met.execution))
  /\ UNCHANGED <<storeFrame, callerVars, schedVars, met, statusVars,
                 lockVars, deliverVars, timeVars>>

\* if err != nil { result = ... }; s.state.Update(result)
StoreReturn ==
  /\ got # Nil
  /\ Get(Monitors[met.monitor].name) = Nil
  /\ Update(WorkerResult(Monitors[met.monitor], got[1], 1))
  /\ UNCHANGED <<callerVars, schedVars, progVars>>

NextCheck ==
  \/ CallCheck
  \/ StoreReturn

SpecCheck == InitCheck /\ [][NextCheck]_vars

\* the Check under study, its execution and the Result it returned
Probe == Monitors[met.monitor]
Met == met.execution
Returned == got[1].result[1]
RESTReturned == got # Nil /\ Probe.type = "rest"
QualityReturned == got # Nil /\ Probe.type = "quality"

(***************************************************************************)
(* The overall status: getOverallStatus of main.go and of the API server.  *)
(***************************************************************************)
\* monitors.Status
Statuses == {"ok", "warn", "fail", "info"}

\* the orders in which `for _, result := range results` can visit the map
Orders(rs) ==
  LET n == Cardinality(DOMAIN rs)
  IN  {order \in [1..n -> DOMAIN rs] :
         \A a, b \in 1..n : order[a] = order[b] => a = b}

\* for _, result := range results { ... }; if hasWarn { ... }
RECURSIVE RangeResults(_, _, _)
RangeResults(rs, order, hasWarn) ==
  IF order = <<>>
    THEN IF hasWarn THEN "warn" ELSE "ok"
  ELSE IF rs[Head(order)].Status = "fail"
    THEN "fail"
  ELSE RangeResults(rs, Tail(order),
                    hasWarn \/ rs[Head(order)].Status = "warn")

\* getOverallStatus (main.go), the map visited in this order
getOverallStatus(rs, order) ==
  IF Cardinality(DOMAIN rs) = 0
    THEN "info"
    ELSE RangeResults(rs, order, FALSE)

\* the server's loop returning at the first warn
RECURSIVE ServerRangeFirstWarn(_, _, _)
ServerRangeFirstWarn(rs, order, hasWarn) ==
  IF order = <<>>
    THEN IF hasWarn THEN "warn" ELSE "ok"
  ELSE IF rs[Head(order)].Status = "fail"
    THEN "fail"
  ELSE IF rs[Head(order)].Status = "warn"
    THEN "warn"
  ELSE ServerRangeFirstWarn(rs, Tail(order), hasWarn)
\* Server.getOverallStatus: its loop
RECURSIVE ServerRange(_, _, _)
ServerRange(rs, order, hasWarn) ==
  IF order = <<>>
    THEN IF hasWarn THEN "warn" ELSE "ok"
  ELSE IF rs[Head(order)].Status = "fail"
    THEN "fail"
  ELSE ServerRange(rs, Tail(order),
                   hasWarn \/ rs[Head(order)].Status = "warn")

\* Server.getOverallStatus (server.go), the map visited in this order
ServerGetOverallStatus(rs, order) ==
  IF Cardinality(DOMAIN rs) = 0
    THEN "info"
    ELSE ServerRange(rs, order, FALSE)

(***************************************************************************)
(* SpecStatus: continuous mode.  Workers store Results of every status     *)
(* while the display and the /api/status handler read the store.           *)
(***************************************************************************)
MaxStatusUpdates == 3

\* a worker's s.state.Update(result), the Result of status st
PublishStatus ==
  \E n \in StoreNames : \E st \in Statuses :
    /\ main.pc # "exited"
    /\ TotalUpdates < MaxStatusUpdates
    /\ Update(Result(n, IF n = "api" THEN "rest" ELSE "quality", st, st,
                     nUpd[n] + 1))
    /\ nUpd' = [nUpd EXCEPT ![n] = @ + 1]
    /\ latest' = MapPut(latest, n,
                        Result(n, IF n = "api" THEN "rest" ELSE "quality",
                               st, st, nUpd[n] + 1))
    /\ UNCHANGED <<snaps, snapExpect, schedVars, progVars>>

\* runMonitor: results := engine.State().GetAll(); ...;
\* status := getOverallStatus(results)
RunMonitor(then) ==
  /\ main.pc = "display"
  /\ \E order \in Orders(GetAllValue) :
       main' = [main EXCEPT !.results = GetAllValue,
                            !.status = getOverallStatus(GetAllValue, order),
                            !.shown = TRUE,
                            !.pc = then]
  /\ UNCHANGED <<storeFrame, callerVars, schedVars, checkVars, api,
                 lockVars, deliverVars, timeVars>>

\* handleStatus: results := s.engine.State().GetAll(); ...;
\* overall := s.getOverallStatus(results)
HandleStatus ==
  /\ \E order \in Orders(GetAllValue) :
       api' = [results |-> GetAllValue,
               overall |-> ServerGetOverallStatus(GetAllValue, order),
               served |-> TRUE]
  /\ UNCHANGED <<storeFrame, callerVars, schedVars, checkVars, main,
                 lockVars, deliverVars, timeVars>>

\* the program before its first display or exit
MainAt(pc) ==
  [pc |-> pc, results |-> EmptyMap, status |-> "", shown |-> FALSE,
   exit |-> -1]
NoResponse == [results |-> EmptyMap, overall |-> "", served |-> FALSE]

InitStatus ==
  /\ NewStateStore /\ NoSubscriptions /\ NoCalls /\ SchedulerOff
  /\ NoCheck /\ NoSteps /\ NoDelivery /\ NoClock
  /\ main = MainAt("display")
  /\ api = NoResponse

\* runContinuousMode: runMonitor(engine) at every refresh
Refresh == RunMonitor("display")

NextStatus ==
  \/ PublishStatus
  \/ Refresh
  \/ HandleStatus

SpecStatus == InitStatus /\ [][NextStatus]_vars

(***************************************************************************)
(* SpecOnce: --once mode.  The engine's workers store Results while main   *)
(* waits for them, displays them and exits.                                *)
(***************************************************************************)
\* engine.MonitorCount()
ExpectedCount == Cardinality(StoreNames)

\* waitForResults: a tick of its ticker finds a Result of every monitor
WaitSeesAll ==
  /\ main.pc = "wait"
  /\ Cardinality(DOMAIN GetAllValue) >= ExpectedCount
  /\ main' = [main EXCEPT !.pc = "display"]
  /\ UNCHANGED <<storeFrame, callerVars, schedVars, checkVars, api,
                 lockVars, deliverVars, timeVars>>

\* waitForResults: a tick of its ticker comes after the deadline
WaitDeadline ==
  /\ main.pc = "wait"
  /\ main' = [main EXCEPT !.pc = "display"]
  /\ UNCHANGED <<storeFrame, callerVars, schedVars, checkVars, api,
                 lockVars, deliverVars, timeVars>>

\* runOnceMode: runMonitor(engine)
DisplayOnce == RunMonitor("status")

\* status := getOverallStatus(engine.State().GetAll())
ReadStatus ==
  /\ main.pc = "status"
  /\ \E order \in Orders(GetAllValue) :
       main' = [main EXCEPT !.results = GetAllValue,
                            !.status = getOverallStatus(GetAllValue, order),
                            !.pc = "exit"]
  /\ UNCHANGED <<storeFrame, callerVars, schedVars, checkVars, api,
                 lockVars, deliverVars, timeVars>>

\* the exit that takes a warn status for a failure too
ExitOnWarn ==
  /\ main.pc = "exit"
  /\ main' = [main EXCEPT !.exit = IF main.status \in {"fail", "warn"}
                                     THEN 1 ELSE 0,
                          !.pc = "exited"]
  /\ UNCHANGED <<storeFrame, callerVars, schedVars, checkVars, api,
                 lockVars, deliverVars, timeVars>>
\* if status == monitors.StatusFail { os.Exit(1) }; else main returns
Exit ==
  /\ main.pc = "exit"
  /\ main' = [main EXCEPT !.exit = IF main.status = "fail" THEN 1 ELSE 0,
                          !.pc = "exited"]
  /\ UNCHANGED <<storeFrame, callerVars, schedVars, checkVars, api,
                 lockVars, deliverVars, timeVars>>

InitOnce ==
  /\ NewStateStore /\ NoSubscriptions /\ NoCalls /\ SchedulerOff
  /\ NoCheck /\ NoSteps /\ NoDelivery /\ NoClock
  /\ main = MainAt("wait")
  /\ api = NoResponse

NextOnce ==
  \/ PublishStatus
  \/ WaitSeesAll
  \/ WaitDeadline
  \/ DisplayOnce
  \/ ReadStatus
  \/ Exit

SpecOnce == InitOnce /\ [][NextOnce]_vars

(***************************************************************************)
(* SpecLock: Update, Get and GetAll statement by statement under s.mu,     *)
(* called by the workers of two monitors and by two readers.  A statement  *)
(* on a map is one step: the steps of two goroutines interleave wherever   *)
(* s.mu lets them.                                                         *)
(***************************************************************************)
MaxRounds == 2

\* the workers (one per monitor name) and the readers (Get, GetAll)
Updaters == StoreNames
Readers == {"get", "getall"}
Goroutines == Updaters \cup Readers

\* sync.RWMutex: w is the writer that passed rw.w.Lock(), writing whether it
\* has seen the last reader leave, readers those inside RLock..RUnlock
NewRWMutex == [w |-> "", writing |-> FALSE, readers |-> {}]

\* Lock() entered without waiting for the writer that holds rw.w
MuLockNoWait(g) == mu' = [mu EXCEPT !.w = g]
\* s.mu.Lock(): rw.w.Lock(), which also turns new readers away
MuLock(g) ==
  /\ mu.w = ""
  /\ mu' = [mu EXCEPT !.w = g]
\* s.mu.Lock(): the wait for the readers inside to leave
MuLockWait(g) ==
  /\ mu.w = g
  /\ mu.readers = {}
  /\ mu' = [mu EXCEPT !.writing = TRUE]
\* an Unlock that leaves rw.w locked
MuUnlockKeepW(g) == mu' = [mu EXCEPT !.writing = FALSE]
\* s.mu.Unlock()
MuUnlock(g) == mu' = [mu EXCEPT !.w = "", !.writing = FALSE]
\* s.mu.RLock(): waits while a writer holds or awaits the lock
MuRLock(g) ==
  /\ mu.w = ""
  /\ mu' = [mu EXCEPT !.readers = @ \cup {g}]
\* s.mu.RUnlock()
MuRUnlock(g) == mu' = [mu EXCEPT !.readers = @ \ {g}]

\* the Result a worker passes to Update in its next round
RoundResult(g) == NthResult(g, gos[g].round + 1)

\* if len(history) > 100 { history = history[len(history)-100:] }
TrimHistory(h) ==
  IF Len(h) > HistoryCap THEN SubSeq(h, Len(h) - HistoryCap + 1, Len(h)) ELSE h

\* what SpecLock leaves alone
lockFrame == <<watchers, wclosed, cq, cclosed, kind, fpc, fsnap, nSub,
               unsubCalls, panics, lastNotify, callerVars, schedVars,
               checkVars, statusVars, deliverVars, timeVars>>

At(g, pc) == gos[g].pc = pc
Goto(g, pc) == gos' = [gos EXCEPT ![g].pc = pc]

\* Update: s.mu.Lock() entered
UpdateLock(g) ==
  /\ At(g, "idle")
  /\ gos[g].round < MaxRounds
  /\ MuLock(g)
  /\ Goto(g, "locking")
  /\ UNCHANGED <<maps, history, wq, lockFrame>>

\* Update: s.mu.Lock() returns
UpdateLocked(g) ==
  /\ At(g, "locking")
  /\ MuLockWait(g)
  /\ Goto(g, "store")
  /\ UNCHANGED <<maps, history, wq, lockFrame>>

\* s.results[result.Name] = result
UpdateStore(g) ==
  /\ At(g, "store")
  /\ maps' = [maps EXCEPT ![ResultsRef] = StoreResult(@, RoundResult(g))]
  /\ Goto(g, "load")
  /\ UNCHANGED <<mu, history, wq, lockFrame>>

\* history := s.history[result.Name]
UpdateLoadHistory(g) ==
  /\ At(g, "load")
  /\ gos' = [gos EXCEPT ![g].pc = "append",
                        ![g].local = HistoryOf(history, g)]
  /\ UNCHANGED <<mu, maps, history, wq, lockFrame>>

\* history = append(history, entry); ...; s.history[result.Name] = history
UpdateStoreHistory(g) ==
  /\ At(g, "append")
  /\ history' = MapPut(history, g,
                       TrimHistory(Append(gos[g].local,
                                          [Result |-> RoundResult(g)])))
  /\ Goto(g, "notify")
  /\ UNCHANGED <<mu, maps, wq, lockFrame>>

\* for _, watcher := range s.watchers { select { ... } }
UpdateNotify(g) ==
  /\ At(g, "notify")
  /\ wq' = Notify(wq, StateUpdate(RoundResult(g)))
  /\ Goto(g, "unlock")
  /\ UNCHANGED <<mu, maps, history, lockFrame>>

\* defer s.mu.Unlock(); Update returns
UpdateUnlock(g) ==
  /\ At(g, "unlock")
  /\ MuUnlock(g)
  /\ gos' = [gos EXCEPT ![g].pc = "idle", ![g].round = @ + 1,
                        ![g].local = <<>>]
  /\ UNCHANGED <<maps, history, wq, lockFrame>>

\* Get / GetAll: s.mu.RLock()
ReadLock(g) ==
  /\ At(g, "idle")
  /\ gos[g].round < MaxRounds
  /\ MuRLock(g)
  /\ Goto(g, "read")
  /\ UNCHANGED <<maps, history, wq, lockFrame>>

\* return s.results[name], or the copy GetAll makes of s.results
Read(g) ==
  /\ At(g, "read")
  /\ gos' = [gos EXCEPT ![g].pc = "runlock",
                        ![g].local = IF g = "get" THEN Get("api")
                                                   ELSE GetAllValue]
  /\ UNCHANGED <<mu, maps, history, wq, lockFrame>>

\* defer s.mu.RUnlock(); Get / GetAll returns
ReadUnlock(g) ==
  /\ At(g, "runlock")
  /\ MuRUnlock(g)
  /\ gos' = [gos EXCEPT ![g].pc = "idle", ![g].round = @ + 1]
  /\ UNCHANGED <<maps, history, wq, lockFrame>>

InitLock ==
  /\ NewStateStore /\ NoSubscriptions /\ NoCalls /\ SchedulerOff
  /\ NoCheck /\ NoStatus /\ NoDelivery /\ NoClock
  /\ mu = NewRWMutex
  /\ gos = [g \in Goroutines |-> [pc |-> "idle", round |-> 0, local |-> <<>>]]

UpdateSteps ==
  \E g \in Updaters :
    \/ UpdateLock(g)
    \/ UpdateLocked(g)
    \/ UpdateStore(g)
    \/ UpdateLoadHistory(g)
    \/ UpdateStoreHistory(g)
    \/ UpdateNotify(g)
    \/ UpdateUnlock(g)

ReadSteps ==
  \E g \in Readers :
    \/ ReadLock(g)
    \/ Read(g)
    \/ ReadUnlock(g)

NextLock ==
  \/ UpdateSteps
  \/ ReadSteps

SpecLock == InitLock /\ [][NextLock]_vars

(***************************************************************************)
(* SpecLint: the workers of the lint-exclusive checks, pass after pass,     *)
(* their commands ending in every way a command can end.                   *)
(***************************************************************************)
MaxLintPasses == 2

\* the checks that take the lint mutex: golangci-lint and make lint
LintIds == {i \in MonitorIds : TakesLintMutex(i)}

\* how a command can end; it is aborted only once ctx is cancelled
LintOutcomes == IF cancelled THEN QualityOutcomes
                             ELSE QualityOutcomes \ {"cancelled"}

InitLint ==
  /\ NewStateStore /\ NoSubscriptions /\ NoCalls /\ NoProgram
  /\ spc = "off"
  /\ spawnIdx = 0
  /\ wg = 0
  /\ mpc = [i \in LintIds |-> "idle"]
  /\ mres = [i \in LintIds |-> Nil]
  /\ golangciLintMutex = 0
  /\ tickerOn = FALSE
  /\ tickerC = 0
  /\ cancelled = FALSE
  /\ ticks = 0
  /\ runs = [i \in LintIds |-> 0]
  /\ execCount = [i \in LintIds |-> 0]
  /\ updCount = [i \in LintIds |-> 0]

\* runChecks: wg.Wait() of the pass before has returned; every worker of the
\* pass is started
LintPass ==
  /\ ticks < MaxLintPasses
  /\ \A i \in LintIds : mpc[i] = "idle"
  /\ ticks' = ticks + 1
  /\ wg' = Cardinality(LintIds)
  /\ mpc' = [i \in LintIds |-> "start"]
  /\ execCount' = [i \in LintIds |-> 0]
  /\ updCount' = [i \in LintIds |-> 0]
  /\ UNCHANGED <<storeFrame, callerVars, progVars, spc, spawnIdx, mres,
                 golangciLintMutex, tickerOn, tickerC, cancelled, runs>>

\* cancel() of ctx
LintCancel ==
  /\ ~cancelled
  /\ cancelled' = TRUE
  /\ UNCHANGED <<storeFrame, callerVars, progVars, spc, spawnIdx, wg, mpc,
                 mres, golangciLintMutex, tickerOn, tickerC, ticks, runs,
                 execCount, updCount>>

\* the command of check i ends
LintReturns(i) == \E o \in LintOutcomes : CheckReturns(i, o)

LintWorker(i) ==
  \/ CheckBegin(i)
  \/ LintReturns(i)
  \/ Publish(i)

NextLint ==
  \/ LintPass
  \/ LintCancel
  \/ \E i \in LintIds : LintWorker(i)

\* sync.Mutex hands the lock to a waiter that has waited long (starvation
\* mode); every command returns; a worker that can run does
FairnessLint ==
  \A i \in LintIds :
    /\ SF_vars(CheckBegin(i))
    /\ WF_vars(LintReturns(i))
    /\ WF_vars(Publish(i))

SpecLint == InitLint /\ [][NextLint]_vars /\ FairnessLint

(***************************************************************************)
(* SpecShutdown: the store with its subscribers while ctx is cancelled.    *)
(* Scheduler.Start and cancel() touch no field of the store, so the        *)
(* scheduler is left at rest; what the program does with a subscription at *)
(* shutdown is what its owner does.  An SSE handler returns when its       *)
(* request context is done, which the client can cause at any time and     *)
(* which apiServer.Stop() causes after cancel(); its deferred Unsubscribe  *)
(* then runs.  A reader of SubscribeUpdates may unsubscribe, or not.       *)
(***************************************************************************)
\* handleSSE returns on <-ctx.Done(): the deferred Unsubscribe(updates)
HandlerReturn(k) ==
  /\ kind[k] = "map"
  /\ unsubCalls[k] = 0
  /\ Unsubscribe(k)
  /\ UNCHANGED <<callerVars, schedVars, progVars>>

HandlerReturns == \E k \in SubIds : HandlerReturn(k)

\* the reader of an update queue gives its subscription up
ReaderLeaves ==
  \E k \in SubIds :
    /\ kind[k] = "upd"
    /\ unsubCalls[k] = 0
    /\ UnsubscribeUpdates(k)
    /\ UNCHANGED <<callerVars, schedVars, progVars>>

\* a subscription is made while the program is not shutting down
Arrives ==
  /\ ~cancelled
  /\ \/ CallSubscribe
     \/ CallSubscribeUpdates

NextShutdown ==
  \/ CallUpdate
  \/ Arrives
  \/ HandlerReturns
  \/ ReaderLeaves
  \/ Forwarder
  \/ Reader
  \/ Cancel

\* every forwarding goroutine runs; after cancel() the server is closed and
\* every SSE handler returns
FairnessShutdown ==
  /\ \A k \in SubIds :
       /\ WF_vars(ForwardReceive(k) /\ UNCHANGED <<callerVars, schedVars, progVars>>)
       /\ WF_vars(ForwardGetAll(k) /\ UNCHANGED <<callerVars, schedVars, progVars>>)
       /\ WF_vars(ForwardSend(k) /\ UNCHANGED <<callerVars, schedVars, progVars>>)
       /\ WF_vars(cancelled /\ HandlerReturn(k))

SpecShutdown == InitStore /\ [][NextShutdown]_vars /\ FairnessShutdown

(***************************************************************************)
(* Claims about the lint lock and the passes of the scheduler (Spec).      *)
(***************************************************************************)
\* a command probe whose command contains "golangci-lint" or one of whose
\* arguments contains "lint"
LintExclusive(i) ==
  /\ Monitors[i].type = "quality"
  /\ \/ Contains(Monitors[i].command, StrGolangciLint)
     \/ \E a \in DOMAIN Monitors[i].args : Contains(Monitors[i].args[a], StrLint)

\* C1: at most one lint-exclusive command probe is between acquiring and
\* releasing the lint lock, that is executing its command, at any instant,
\* and the one that is holds the lock.
C1_OneLintAtATime ==
  /\ Cardinality({i \in MonitorIds : LintExclusive(i) /\ mpc[i] = "running"}) <= 1
  /\ \A i \in MonitorIds :
       (LintExclusive(i) /\ mpc[i] = "running") => golangciLintMutex = i

\* one lint-exclusive probe executes while another waits for the lock
C1_Witness ==
  \E i, j \in MonitorIds :
    /\ i # j
    /\ LintExclusive(i) /\ LintExclusive(j)
    /\ mpc[i] = "running" /\ golangciLintMutex = i
    /\ mpc[j] = "start"

\* C2: a check that is not lint-exclusive never acquires or waits on the lint
\* lock: it never holds it, and each of its steps (starting, finishing,
\* publishing its Result) can be taken whoever holds the lock and whoever
\* waits for it.
C2_OthersNeverWaitForLintLock ==
  \A i \in MonitorIds :
    ~LintExclusive(i) =>
      /\ golangciLintMutex # i
      /\ mpc[i] # "idle" => ENABLED Worker(i)

\* a check that is not lint-exclusive has published its Result of the pass
\* while one lint-exclusive probe holds the lock and another waits for it
C2_Witness ==
  \E i, j, k \in MonitorIds :
    /\ ~LintExclusive(i) /\ LintExclusive(j) /\ LintExclusive(k)
    /\ updCount[i] = 1 /\ mpc[i] = "idle"
    /\ Get(Monitors[i].name) # Nil
    /\ Get(Monitors[i].name)[1].Timestamp = ticks
    /\ mpc[j] = "running" /\ golangciLintMutex = j
    /\ mpc[k] = "start"

\* the pass that was started last has returned
PassComplete == ticks >= 1 /\ spc \in {"select", "returned"}

MonitorNames == {Monitors[i].name : i \in MonitorIds}
\* monitor i has an execution outstanding: started and not yet published
Outstanding(i) == mpc[i] # "idle"

\* C11: a pass returns only after every execution it started has finished
\* and its Result has been passed to Update: the WaitGroup counts the
\* outstanding executions, and once a pass has returned no execution is
\* outstanding, no Result waits to be published and every check's stored
\* Result is the one of that pass; the names being unique, GetAll then has
\* exactly one entry per registered check.
C11_TickBarrier ==
  /\ wg = Cardinality({i \in MonitorIds : Outstanding(i)})
  /\ PassComplete =>
       /\ \A i \in MonitorIds :
            /\ ~Outstanding(i)
            /\ mres[i] = Nil
            /\ results[Monitors[i].name].Timestamp = ticks
       /\ DOMAIN GetAllValue = MonitorNames
       /\ Cardinality(DOMAIN GetAllValue) = Len(Monitors)

\* the first pass has returned and GetAll has one entry per registered check
C11_Witness ==
  /\ ticks = 1
  /\ spc = "select"
  /\ Cardinality(DOMAIN GetAllValue) = Len(Monitors)

\* C12: within a pass a check's Result is published independently of the
\* other checks: a worker that holds a Result can always call Update, a
\* running check can always end, and a check that has not begun can begin
\* unless it waits for the lint lock, whose holder can end; no check that
\* fails, times out or is slow stands in the way of another's Update.
C12_PublishedIndependently ==
  \A i \in MonitorIds :
    /\ mpc[i] = "update" => ENABLED Publish(i)
    /\ mpc[i] = "running" => ENABLED (\E o \in Outcomes(i) : CheckEnd(i, o))
    /\ mpc[i] = "start" =>
         \/ ENABLED CheckBegin(i)
         \/ /\ LintExclusive(i)
            /\ \E j \in MonitorIds \ {i} :
                 /\ golangciLintMutex = j
                 /\ mpc[j] = "running"
                 /\ ENABLED (\E o \in Outcomes(j) : CheckEnd(j, o))

\* a check's Result of the current pass is visible through Get, after a
\* check of the same pass that timed out, while another check still runs
C12_Witness ==
  \E i, j, k \in MonitorIds :
    /\ Get(Monitors[i].name) # Nil
    /\ Get(Monitors[i].name)[1].Timestamp = ticks
    /\ Get(Monitors[i].name)[1].Status = "ok"
    /\ mpc[j] = "running"
    /\ runs[j] = ticks
    /\ Holds(Monitors[k].name, "fail",
             Sprintf("Command timed out after ", "timeout"),
             ticks, "quality")

\* C13: for each check the Results reach the store in the order of the
\* passes: the j-th entry of a name's history is the Result of pass j, the
\* history lags the passes by at most the one under way, and Get returns
\* the Result of the latest pass stored.
C13_ResultsInTickOrder ==
  \A i \in MonitorIds :
    LET h == HistoryOf(history, Monitors[i].name)
    IN  /\ \A j \in 1..Len(h) : h[j].Result.Timestamp = j
        /\ Len(h) \in {ticks - 1, ticks}
        /\ Len(h) > 0 => Get(Monitors[i].name) = Ptr(h[Len(h)].Result)

\* a check failed in the first pass and passed in the second: the history
\* holds both in that order and Get returns the second
C13_Witness ==
  \E i \in MonitorIds :
    LET h == HistoryOf(history, Monitors[i].name)
    IN  /\ Len(h) = 2
        /\ h[1].Result.Status = "fail" /\ h[1].Result.Timestamp = 1
        /\ h[2].Result.Status = "ok" /\ h[2].Result.Timestamp = 2
        /\ Get(Monitors[i].name)[1].Status = "ok"

\* C14: each registered check has at most one execution outstanding: the
\* scheduler starts an execution of a check only when no execution of that
\* check is outstanding, also when the timer fired while the last pass ran.
C14_OneExecutionOutstanding ==
  [][\A i \in MonitorIds :
       (wg' = wg + 1 /\ spawnIdx = i) =>
         /\ ~Outstanding(i)
         /\ mres[i] = Nil
         /\ runs[i] = ticks - 1]_vars

\* the timer has fired while a check of the second pass still runs and the
\* scheduler waits for it before the third pass
C14_Witness ==
  /\ tickerC = 1
  /\ spc = "wait"
  /\ ticks = 2
  /\ \E i \in MonitorIds : mpc[i] = "running"

\* C15: once ctx is cancelled, Start begins no pass after its first, whether
\* or not a tick waits in ticker.C.
C15_NoTickAfterCancel ==
  [][(cancelled /\ ticks >= 1) => ticks' = ticks]_vars

\* C17: Start does not return while ctx is not cancelled, whatever the
\* checks' outcomes were, and what it returns is the error of ctx.
C17_ReturnsOnlyOnCancel ==
  /\ spc = "returned" => (cancelled /\ CtxErr = Ptr("context canceled"))
  /\ (~cancelled /\ ticks >= 1) => spc \in {"spawn", "wait", "select"}

\* Start has returned after two passes in which checks failed and timed out
C17_Witness ==
  /\ spc = "returned"
  /\ ticks = 2
  /\ \E i, j \in MonitorIds :
       /\ history[Monitors[i].name][1].Result.Message[1] = "Command timed out after "
       /\ history[Monitors[j].name][2].Result.Message[1] = "Command failed: "

\* C19: Start runs one pass at once, before its ticker exists, and every
\* later pass takes its own tick out of ticker.C: the first pass begins with
\* no ticker and needs no tick, the ticker exists only once the first pass
\* has returned, and each later pass begins by consuming the tick that is
\* waiting.
C19_ImmediateFirstPass ==
  [][/\ spc = "start" => ENABLED StartInitial
     /\ ticks' = ticks + 1 =>
          IF ticks = 0 THEN ~tickerOn /\ tickerC = 0 /\ spc = "start"
                       ELSE tickerOn /\ tickerC = 1 /\ tickerC' = 0
     /\ (tickerC = 0 /\ tickerC' = 1) =>
          (tickerOn /\ ticks >= 1 /\ spc \in {"select", "spawn", "wait"})
     /\ (tickerOn' /\ ~tickerOn) => (ticks = 1 /\ spc = "wait" /\ wg = 0)]_vars

\* the second pass has begun and has taken the tick that was waiting
C19_Witness ==
  /\ ticks = 2
  /\ spc = "spawn"
  /\ tickerC = 0
  /\ tickerOn


(***************************************************************************)
(* Claims about what eventually happens after cancellation (SpecLive).     *)
(***************************************************************************)
\* C16: once ctx is cancelled every outstanding execution eventually ends,
\* also one that waits for the lint lock, the WaitGroup falls to zero and
\* Start returns, given that an aborted request or command returns.
C16_CancelledStartReturns ==
  cancelled ~> (/\ spc = "returned"
                /\ wg = 0
                /\ \A i \in MonitorIds : ~Outstanding(i))

\* Start has returned after a pass in which ctx was cancelled before either
\* lint-exclusive check had ended: the one that waited for the lock was
\* aborted too
C16_Witness ==
  /\ spc = "returned"
  /\ \E i, j \in MonitorIds :
       /\ i # j
       /\ LintExclusive(i) /\ LintExclusive(j)
       /\ Holds(Monitors[i].name, "fail",
                Sprintf("Command failed: ", "context canceled"),
                ticks, "quality")
       /\ Holds(Monitors[j].name, "fail",
                Sprintf("Command failed: ", "context canceled"),
                ticks, "quality")

(***************************************************************************)
(* Claims about the subscribers at shutdown (SpecShutdown).                *)
(***************************************************************************)
\* the queue the reader of subscription k reads is closed
DeliveryClosed(k) == IF kind[k] = "map" THEN cclosed[k] ELSE wclosed[k]

\* C18: once ctx is cancelled, the delivery queue of every subscription is
\* eventually closed.
C18_QueuesClosedAtShutdown ==
  cancelled ~> (\A k \in SubIds : kind[k] # "none" => DeliveryClosed(k))


(***************************************************************************)
(* Claims about one Check (SpecCheck).                                     *)
(***************************************************************************)
\* the operation of the Check, client.Do or cmd.Run, ran and returned an error
OperationFailed ==
  IF Probe.type = "rest"
    THEN Met.reqErr = Nil /\ Met.doErr # Nil
    ELSE Met.err # Nil
\* the deadline of checkCtx had passed when the operation returned
DeadlineElapsed == Met.ctxErr = Ptr(DeadlineExceeded)
\* the message of a timeout
TimeoutMessage(r) ==
  r.Message \in {Sprintf("Request timed out after ", "timeout"),
                 Sprintf("Command timed out after ", "timeout")}

\* C21: a Check returns a fail Result with the timeout message exactly when
\* its operation failed and its own deadline had elapsed; an operation that
\* failed otherwise (non-zero exit, transport failure, cancellation of ctx
\* before the deadline) gives a fail Result with another message.
C21_TimeoutMessageIffDeadline ==
  got # Nil =>
    /\ got[1].err = Nil
    /\ (TimeoutMessage(Returned) /\ Returned.Status = "fail")
         <=> (OperationFailed /\ DeadlineElapsed)
    /\ (OperationFailed /\ ~DeadlineElapsed) =>
         (Returned.Status = "fail" /\ ~TimeoutMessage(Returned))

\* a command was killed at its deadline and the Result says it timed out
C21_Witness ==
  /\ QualityReturned
  /\ Met.isExitError /\ Met.exitCode = -1 /\ DeadlineElapsed
  /\ TimeoutMessage(Returned) /\ Returned.Status = "fail"

\* a response was received: the request was built and client.Do returned it
Answered == Probe.type = "rest" /\ Met.reqErr = Nil /\ Met.doErr = Nil

\* C22: for a response received, the Result is ok exactly for the codes
\* 200-399, warn exactly for 400-499 and fail for 500-599, and one of the
\* three for every code; a transport failure or a timeout gives fail.
C22_StatusByCode ==
  RESTReturned =>
    /\ Answered =>
         /\ Returned.Status = "ok" <=> (Met.code >= 200 /\ Met.code <= 399)
         /\ Returned.Status = "warn" <=> (Met.code >= 400 /\ Met.code <= 499)
         /\ (Met.code >= 500 /\ Met.code <= 599) => Returned.Status = "fail"
         /\ Returned.Status \in {"ok", "warn", "fail"}
    /\ (Met.reqErr = Nil /\ Met.doErr # Nil) => Returned.Status = "fail"

\* the service answered 503 and the Result is fail; the Result is stored
C22_Witness ==
  /\ RESTReturned /\ Answered
  /\ Met.code = 503
  /\ Holds(Probe.name, "fail", Sprintf("HTTP (server error) ", "503"), 1,
           "rest")

\* C23: every Result of RESTMonitor.Check carries the target URL in
\* Metadata["url"], on every path of Check; when a response was received,
\* Metadata["status_code"] is the response's status code.
C23_URLInEveryResult ==
  RESTReturned =>
    /\ "url" \in DOMAIN Returned.Metadata
    /\ Returned.Metadata["url"] = "url+health"
    /\ Answered =>
         /\ "status_code" \in DOMAIN Returned.Metadata
         /\ Returned.Metadata["status_code"] = Met.code

\* the command ran and exited by itself with a non-zero status
ExitedNonZero == Met.err # Nil /\ Met.isExitError /\ Met.exitCode > 0
\* the command could not be started: Run returned an error that is no
\* *exec.ExitError
NotStarted == Met.err # Nil /\ ~Met.isExitError
HasMetadata(r, key) == key \in DOMAIN r.Metadata

\* C24 as stated: exit status 0 gives ok; a non-zero exit status n gives fail
\* with Metadata["exit_code"] = n; a process that could not be started gives
\* fail without exit_code; Metadata["command"] is in every Result.
C24_ExitCodeForEveryNonZeroExit ==
  QualityReturned =>
    /\ Met.err = Nil => Returned.Status = "ok"
    /\ ExitedNonZero =>
         /\ Returned.Status = "fail"
         /\ HasMetadata(Returned, "exit_code")
         /\ Returned.Metadata["exit_code"] = Met.exitCode
    /\ NotStarted =>
         (Returned.Status = "fail" /\ ~HasMetadata(Returned, "exit_code"))
    /\ HasMetadata(Returned, "command")

\* C24, amended: the same, the exit code being in the Metadata of a non-zero
\* exit when the deadline of the check had not elapsed as Run returned; with
\* the deadline elapsed the Result is fail without exit_code.
C24_ExitCodeUnlessDeadline ==
  QualityReturned =>
    /\ Met.err = Nil => Returned.Status = "ok"
    /\ (ExitedNonZero /\ ~DeadlineElapsed) =>
         /\ Returned.Status = "fail"
         /\ HasMetadata(Returned, "exit_code")
         /\ Returned.Metadata["exit_code"] = Met.exitCode
    /\ (ExitedNonZero /\ DeadlineElapsed) =>
         (Returned.Status = "fail" /\ ~HasMetadata(Returned, "exit_code"))
    /\ NotStarted =>
         (Returned.Status = "fail" /\ ~HasMetadata(Returned, "exit_code"))
    /\ HasMetadata(Returned, "command")

\* a command exited with status 2 before its deadline: fail with exit_code 2
C24_Witness ==
  /\ QualityReturned
  /\ ExitedNonZero /\ Met.exitCode = 2 /\ ~DeadlineElapsed
  /\ Returned.Status = "fail"
  /\ HasMetadata(Returned, "exit_code")
  /\ Returned.Metadata["exit_code"] = 2
  /\ Returned.Metadata["command"] = <<Probe.command, Probe.args>>

\* C25: whenever the Result of QualityMonitor.Check is fail and the captured
\* standard error is not empty, Metadata["stderr"] holds it, whatever the
\* failure (non-zero exit, spawn failure, deadline exceeded); an ok Result
\* never has Metadata["stderr"].
C25_StderrOnEveryFailure ==
  QualityReturned =>
    /\ (Returned.Status = "fail" /\ Met.stderr.Len > 0) =>
         /\ HasMetadata(Returned, "stderr")
         /\ Returned.Metadata["stderr"] = Met.stderr.String
    /\ Returned.Status = "ok" => ~HasMetadata(Returned, "stderr")

(***************************************************************************)
(* Claims about the overall status (SpecStatus, SpecOnce).                 *)
(***************************************************************************)
HasStatus(rs, st) == \E n \in DOMAIN rs : rs[n].Status = st
\* fail over warn over ok; info for no Result at all
Aggregate(rs) ==
  IF DOMAIN rs = {} THEN "info"
  ELSE IF HasStatus(rs, "fail") THEN "fail"
  ELSE IF HasStatus(rs, "warn") THEN "warn"
  ELSE "ok"

Updating(g) ==
  gos[g].pc \in {"store", "load", "append", "notify", "unlock"}
\* a Get or GetAll runs: between RLock and RUnlock
Reading(g) == gos[g].pc \in {"read", "runlock"}
\* the Updates of worker g that have returned
UpdatesReturned(g) == gos[g].round

\* C27: concurrent Updates of distinct names are linearizable.  No Update is
\* part-way while another Update, a Get or a GetAll runs; whenever no Update
\* is part-way the results map holds, for each name, exactly the Result of
\* its worker's last returned Update and the name's history one entry per
\* returned Update, in order; a reader sees such a state.
C27_UpdatesLinearizable ==
  /\ \A g \in Updaters :
       Updating(g) =>
         /\ \A h \in Updaters \ {g} : ~Updating(h)
         /\ \A r \in Readers : ~Reading(r)
  /\ (\A g \in Updaters : ~Updating(g)) =>
       /\ DOMAIN results = {g \in Updaters : UpdatesReturned(g) > 0}
       /\ \A g \in Updaters :
            /\ UpdatesReturned(g) > 0 => results[g] = NthResult(g, UpdatesReturned(g))
            /\ Len(HistoryOf(history, g)) = UpdatesReturned(g)
            /\ \A j \in 1..UpdatesReturned(g) :
                 history[g][j].Result = NthResult(g, j)
  /\ gos["getall"].pc = "runlock" => gos["getall"].local = results
  /\ gos["get"].pc = "runlock" => gos["get"].local = Get("api")

\* all the Updates of both workers have returned and both readers have run
\* among them: the map holds both names, each history every entry
C27_Witness ==
  /\ \A g \in Goroutines : gos[g].round = MaxRounds /\ gos[g].pc = "idle"
  /\ DOMAIN results = Updaters
  /\ \A g \in Updaters : Len(history[g]) = MaxRounds

(***************************************************************************)
(* Claims about delivery to the subscribers (SpecStore).                   *)
(***************************************************************************)
\* subscription k was created by Subscribe, its own Unsubscribe has not been
\* called, and its queue has room
LiveWithRoom(k) ==
  /\ kind[k] = "map"
  /\ unsubCalls[k] = 0
  /\ Len(wq[k]) < WatcherCap

\* C28: every Update puts one notification, its own, in the queue of every
\* live subscription whose queue has room, whatever other subscriptions have
\* been unsubscribed before.
C28_EveryLiveSubscriberNotified ==
  [][\A n \in StoreNames :
       UpdateReturned(n) =>
         \A k \in SubIds :
           LiveWithRoom(k) =>
             wq'[k] = Append(wq[k], StateUpdate(latest'[n]))]_vars

(***************************************************************************)
(* Claims about the lint lock over every exit path (SpecLint).             *)
(***************************************************************************)
\* check i waits for the lint mutex: its worker is in Lock()
WaitsForLint(i) == LintExclusive(i) /\ mpc[i] = "start"
\* the lint mutex is held although no lint-exclusive check is executing
HeldIdle ==
  /\ golangciLintMutex # 0
  /\ \A i \in LintIds : LintExclusive(i) => mpc[i] # "running"

\* C30: the lint lock is held only while one check executes.  Whatever way
\* the command ends (success, non-zero exit, spawn failure, timeout,
\* cancellation) Check returns with the lock released, so the lock is never
\* held while no lint-exclusive check executes; and a lint-exclusive check
\* that waits for the lock eventually holds it, every command returning.
C30_LintLockReleased ==
  /\ HeldIdle ~> FALSE
  /\ \A i \in LintIds : WaitsForLint(i) ~> (golangciLintMutex = i)

\* golangci-lint timed out and make lint could not be started in the first
\* pass; in the second golangci-lint holds the lock again while make lint,
\* which ended with a non-zero exit, has released it
C30_Witness ==
  /\ ticks = 2
  /\ \E i, j \in LintIds :
       /\ LintExclusive(i) /\ LintExclusive(j)
       /\ golangciLintMutex = i /\ mpc[i] = "running"
       /\ HistoryOf(history, Monitors[i].name) # <<>>
       /\ history[Monitors[i].name][1].Result.Message =
            Sprintf("Command timed out after ", "timeout")
       /\ Len(HistoryOf(history, Monitors[j].name)) = 2
       /\ history[Monitors[j].name][1].Result.Message =
            Sprintf("Command failed: ", ErrText("spawn"))
       /\ HasMetadata(history[Monitors[j].name][2].Result, "exit_code")
       /\ history[Monitors[j].name][2].Result.Metadata["exit_code"] = 1

(***************************************************************************)
(* SpecSSE: the store with the clients of /api/events.  Every connection   *)
(* runs handleSSE: Subscribe(updates) once, reads of updates while the     *)
(* client is there, and the deferred Unsubscribe(updates) once when the    *)
(* request context is done.  No other code of the program subscribes.      *)
(***************************************************************************)
\* the handler of connection k has subscribed and has not returned
Connected(k) == kind[k] = "map" /\ unsubCalls[k] = 0
\* the deferred Unsubscribe(updates) of connection k has returned
Disconnected(k) == kind[k] = "map" /\ unsubCalls[k] > 0

\* handleSSE: case <-updates
HandlerReceives ==
  \E k \in SubIds :
    /\ ReceiveSnapshot(k)
    /\ UNCHANGED <<callerVars, schedVars, progVars>>

NextSSE ==
  \/ CallUpdate
  \/ CallSubscribe
  \/ HandlerReturns
  \/ Forwarder
  \/ HandlerReceives

\* every forwarding goroutine is scheduled; no client has to disconnect and
\* no check has to report
FairnessSSE ==
  \A k \in SubIds :
    /\ WF_vars(ForwardReceive(k) /\ UNCHANGED <<callerVars, schedVars, progVars>>)
    /\ WF_vars(ForwardGetAll(k) /\ UNCHANGED <<callerVars, schedVars, progVars>>)
    /\ WF_vars(ForwardSend(k) /\ UNCHANGED <<callerVars, schedVars, progVars>>)

SpecSSE == InitStore /\ [][NextSSE]_vars /\ FairnessSSE

(***************************************************************************)
(* Claims about the subscriptions of the SSE clients (SpecSSE).            *)
(***************************************************************************)
\* C31: the subscriber list has as many entries as there are connections
\* whose handler has subscribed and not yet unsubscribed, and it is empty
\* whenever no client is connected
C31_WatchersCountConnections ==
  /\ Len(watchers) = Cardinality({k \in SubIds : Connected(k)})
  /\ (\A k \in SubIds : ~Connected(k)) => watchers = <<>>
\* both clients have come, one has left, and the list holds one entry
C31_Witness ==
  /\ \E k \in SubIds : Connected(k)
  /\ \E k \in SubIds : Disconnected(k)
  /\ Len(watchers) = 1

(***************************************************************************)
(* Claims about the names the store holds (SpecHistory, SpecStore, Spec).  *)
(***************************************************************************)
\* the newest entry of the history of name n
Newest(n) == HistoryOf(history, n)[Len(HistoryOf(history, n))]

\* C33: a name has a non-empty history exactly when it has a current Result,
\* and the newest entry of its history holds the Result Get(name) returns
C33_HistoryMatchesResult ==
  \A n \in StoreNames :
    /\ (HistoryOf(history, n) # <<>>) <=> (Get(n) # Nil)
    /\ Get(n) # Nil => Newest(n).Result = Get(n)[1]
\* one name has been updated past the cap of its history, the other never
C33_Witness ==
  /\ nUpd["api"] > HistoryCap
  /\ Len(HistoryOf(history, "api")) = HistoryCap
  /\ Newest("api").Result = Get("api")[1]
  /\ Get("lint") = Nil
  /\ HistoryOf(history, "lint") = <<>>


\* Engine.MonitorCount(): len(e.monitors)
MonitorCount == Len(Monitors)

\* every key of the map GetAll returns is the Name() of a registered check,
\* and the map has at most MonitorCount() entries
KeysRegistered ==
  /\ DOMAIN GetAllValue \subseteq MonitorNames
  /\ Cardinality(DOMAIN GetAllValue) <= MonitorCount

\* C34: no step removes a name from the store, so a name for which Get has
\* returned a Result keeps having one; and with the scheduler's workers as
\* the only writers every key is the name of a registered check, so GetAll
\* never has more entries than MonitorCount()
C34_NamesOnlyGrow ==
  [][/\ DOMAIN results \subseteq DOMAIN results'
     /\ \A n \in MonitorNames : Get(n) # Nil => Get(n)' # Nil
     /\ KeysRegistered']_vars
\* every registered check has a Result and one of them was stored again
C34_Witness ==
  /\ Cardinality(DOMAIN GetAllValue) = MonitorCount
  /\ \A n \in MonitorNames : Get(n) # Nil
  /\ \E n \in MonitorNames : Len(HistoryOf(history, n)) >= 2

(***************************************************************************)
(* SpecFrame: every method of the store called by its users: checks that   *)
(* report, SSE handlers that subscribe, read and unsubscribe, the          *)
(* forwarding goroutines, and readers that call Get and GetAll.            *)
(***************************************************************************)
\* r := store.Get(name)
CallGet ==
  \E n \in StoreNames :
    /\ got' = Get(n)
    /\ UNCHANGED <<storeVars, subVars, panics, lastNotify, callerVars,
                   schedVars, met, statusVars, lockVars, deliverVars, timeVars>>

NextFrame ==
  \/ CallUpdate
  \/ CallGet
  \/ CallGetAll
  \/ CallSubscribe
  \/ CallUnsubscribe
  \/ Forwarder
  \/ HandlerReceives

SpecFrame == InitStore /\ [][NextFrame]_vars

(***************************************************************************)
(* Claims about what each method of the store leaves alone (SpecFrame).    *)
(***************************************************************************)
\* the step is a call of Get, or of GetAll by a reader or by a forwarder
GetReturned == got' # got
GetAllReturned ==
  \/ Len(snaps') > Len(snaps)
  \/ \E k \in SubIds : fpc[k] = "getall" /\ fpc'[k] = "send"
\* the step is a call of Subscribe, or of Unsubscribe
SubscribeReturned == nSub' # nSub
UnsubscribeReturned == unsubCalls' # unsubCalls

\* C35: Update(result) changes the current Result and the history of
\* result.Name only, leaving every other name's Result and history and the
\* subscriber list as they were; Get and GetAll change no field of the
\* store; Subscribe and Unsubscribe change no Result and no history
C35_FrameOfStoreMethods ==
  [][/\ \A n \in StoreNames :
          UpdateReturned(n) =>
            /\ \A o \in StoreNames \ {n} :
                 /\ Get(o)' = Get(o)
                 /\ HistoryOf(history', o) = HistoryOf(history, o)
            /\ DOMAIN results' = DOMAIN results \cup {n}
            /\ watchers' = watchers
     /\ (GetReturned \/ GetAllReturned) =>
          /\ results' = results
          /\ history' = history
          /\ <<watchers, wq, wclosed>>' = <<watchers, wq, wclosed>>
     /\ (SubscribeReturned \/ UnsubscribeReturned) =>
          /\ results' = results
          /\ history' = history]_vars
\* both names have been updated with a subscriber in the list, Get and
\* GetAll have returned, and a subscriber has unsubscribed
C35_Witness ==
  /\ nUpd["api"] = 1 /\ nUpd["lint"] = 1
  /\ got # Nil
  /\ Len(snaps) >= 1
  /\ nSub = 2
  /\ \E k \in SubIds : unsubCalls[k] > 0
  /\ Len(HistoryOf(history, "api")) = 1

(***************************************************************************)
(* SpecDeliver: the SSE clients' subscriptions with a record of what each  *)
(* forwarding goroutine does: the StateUpdate it took from its watcher     *)
(* (`for range watcher` drops the value) and every map it put on the       *)
(* subscriber's channel, in order.                                         *)
(***************************************************************************)
InitDeliver ==
  /\ NewStateStore /\ NoSubscriptions /\ NoCalls /\ SchedulerOff
  /\ NoCheck /\ NoStatus /\ NoSteps /\ NoClock
  /\ trigger = [k \in SubIds |-> <<>>]
  /\ delivered = [k \in SubIds |-> <<>>]

\* for range watcher: the update received is the one that wakes the forwarder
DeliverReceive(k) ==
  /\ ForwardReceive(k)
  /\ trigger' = [trigger EXCEPT ![k] = IF wq[k] # <<>> THEN <<Head(wq[k])>> ELSE @]
  /\ UNCHANGED <<delivered, callerVars, schedVars, checkVars, statusVars,
                 lockVars, timeVars>>

DeliverGetAll(k) ==
  /\ ForwardGetAll(k)
  /\ UNCHANGED <<callerVars, schedVars, progVars>>

\* case ch <- s.GetAll(): the map is delivered when ch is open and has room
DeliverSend(k) ==
  /\ ForwardSend(k)
  /\ delivered' =
       [delivered EXCEPT ![k] =
          IF ~cclosed[k] /\ Len(cq[k]) < ChanCap
            THEN Append(@, [update |-> trigger[k][1], snapshot |-> fsnap[k][1]])
            ELSE @]
  /\ UNCHANGED <<trigger, callerVars, schedVars, checkVars, statusVars,
                 lockVars, timeVars>>

DeliverForwarder ==
  \E k \in SubIds :
    \/ DeliverReceive(k)
    \/ DeliverGetAll(k)
    \/ DeliverSend(k)

NextDeliver ==
  \/ CallUpdate
  \/ CallSubscribe
  \/ HandlerReturns
  \/ DeliverForwarder
  \/ HandlerReceives

SpecDeliver == InitDeliver /\ [][NextDeliver]_vars

(***************************************************************************)
(* Claims about the maps delivered to a subscriber (SpecDeliver).          *)
(***************************************************************************)
\* Result b of a name is Result a or one stored after it
SameOrLater(a, b) == b = a \/ b.Timestamp > a.Timestamp
\* map t holds for every name of map s the same Result or a later one
NotOlder(s, t) ==
  \A n \in DOMAIN s : n \in DOMAIN t /\ SameOrLater(s[n], t[n])

\* C36: a map delivered to a subscriber after an Update for name n holds for
\* n that Update's Result or a later one, and of two maps delivered to one
\* subscriber the later one holds no older Result for any name
C36_SnapshotsNeverStale ==
  \A k \in SubIds :
    /\ \A i \in DOMAIN delivered[k] :
         LET d == delivered[k][i]
         IN  /\ d.update.Name \in DOMAIN d.snapshot
             /\ SameOrLater(d.update.Result, d.snapshot[d.update.Name])
    /\ \A i, j \in DOMAIN delivered[k] :
         i < j => NotOlder(delivered[k][i].snapshot, delivered[k][j].snapshot)
\* one subscriber got a map after an Update that a second Update for the
\* same name had already overtaken; another got two maps, the second with a
\* newer Result than the first
C36_Witness ==
  /\ \E k \in SubIds : \E i \in DOMAIN delivered[k] :
       LET d == delivered[k][i]
       IN  d.snapshot[d.update.Name].Timestamp > d.update.Result.Timestamp
  /\ \E k \in SubIds :
       /\ Len(delivered[k]) = 2
       /\ \E n \in DOMAIN delivered[k][1].snapshot :
            delivered[k][2].snapshot[n].Timestamp
              > delivered[k][1].snapshot[n].Timestamp

(***************************************************************************)
(* Claims about the end of the forwarding goroutines (SpecSSE).            *)
(***************************************************************************)
\* the forwarding goroutine of subscription k has returned
ForwarderEnded(k) == fpc[k] \in {"done", "recovered"}

\* C38: once Unsubscribe(ch) has returned, the forwarding goroutine that the
\* matching Subscribe(ch) started eventually terminates, with no further
\* Update and no other Unsubscribe needed
C38_ForwarderEndsAfterUnsubscribe ==
  \A k \in SubIds : Disconnected(k) ~> ForwarderEnded(k)

(***************************************************************************)
(* SpecTicks: the scheduler with a select that does not wait once a case   *)
(* is ready.  The ticker itself is free to fire or not.                    *)
(***************************************************************************)
\* Start's select takes a tick that waits in ticker.C
FairnessTicks == WF_vars(SelectTick)

SpecTicks == Spec /\ Fairness /\ FairnessTicks

(***************************************************************************)
(* Claims about the timer and slow checks (SpecTicks).                     *)
(***************************************************************************)
\* the pass the outstanding execution of monitor i belongs to
PassOf(i) == IF mpc[i] = "start" THEN runs[i] + 1 ELSE runs[i]
\* an execution of an earlier pass is outstanding in the current pass
TicksOverlap == \E i \in MonitorIds : Outstanding(i) /\ PassOf(i) # ticks
\* runChecks has not returned from a pass that is not the last one followed,
\* and a tick waits in ticker.C
TickWaitsBehind ==
  /\ ticks < MaxTicks
  /\ spc \in {"spawn", "wait"}
  /\ tickerC = 1
\* Start has taken the tick from ticker.C and entered runChecks
PassEntered == spc = "spawn" /\ spawnIdx = 1 /\ tickerC = 0

\* C32: a timer fire during a pass is kept in ticker.C, which never holds
\* more than one; it is taken and starts the next pass once runChecks has
\* returned (unless ctx is cancelled first); and no execution of an earlier
\* pass is outstanding while a pass runs
C32_SlowCheckDelaysOnlyItsPass ==
  /\ (tickerC > 1 \/ TicksOverlap) ~> FALSE
  /\ TickWaitsBehind ~> (PassEntered \/ cancelled)
\* the timer has fired in the second pass, whose barrier waits for one last
\* check
C32_Witness ==
  /\ TickWaitsBehind
  /\ ticks = 2
  /\ spc = "wait"
  /\ wg = 1
  /\ ~cancelled

(***************************************************************************)
(* SpecDeadline: the lint-exclusive checks of a pass with a clock.  Check  *)
(* is called at the start of the pass, waits in golangciLintMutex.Lock()   *)
(* for as long as the holder's command runs, and only then makes checkCtx  *)
(* with its deadline.  A command ends by itself before its deadline or is  *)
(* killed at it; time does not pass a deadline while the command runs.     *)
(***************************************************************************)
\* m.timeout of the lint-exclusive checks, in units of the clock
LintTimeout == 2
\* how far the clock is followed
MaxClock == 5

InitDeadline ==
  /\ NewStateStore /\ NoSubscriptions /\ NoCalls
  /\ NoCheck /\ NoStatus /\ NoSteps /\ NoDelivery
  /\ spc = "off"
  /\ spawnIdx = 0
  /\ wg = 0
  /\ mpc = [i \in LintIds |-> "idle"]
  /\ mres = [i \in LintIds |-> Nil]
  /\ golangciLintMutex = 0
  /\ tickerOn = FALSE
  /\ tickerC = 0
  /\ cancelled = FALSE
  /\ ticks = 0
  /\ runs = [i \in LintIds |-> 0]
  /\ execCount = [i \in LintIds |-> 0]
  /\ updCount = [i \in LintIds |-> 0]
  /\ now = 0
  /\ called = [i \in LintIds |-> [call |-> 0, lock |-> 0]]
  /\ deadline = [i \in LintIds |-> 0]

\* runChecks: every worker of the pass is started and calls m.Check(ctx)
TimedPass ==
  /\ ticks < MaxLintPasses
  /\ \A i \in LintIds : mpc[i] = "idle"
  /\ ticks' = ticks + 1
  /\ wg' = Cardinality(LintIds)
  /\ mpc' = [i \in LintIds |-> "start"]
  /\ execCount' = [i \in LintIds |-> 0]
  /\ updCount' = [i \in LintIds |-> 0]
  /\ called' = [i \in LintIds |-> [called[i] EXCEPT !.call = now]]
  /\ UNCHANGED <<storeFrame, callerVars, checkVars, statusVars, lockVars,
                 deliverVars, now, deadline, spc, spawnIdx, mres,
                 golangciLintMutex, tickerOn, tickerC, cancelled, runs>>

\* a deadline counted from the call of Check
CheckDeadlineFromCall(i) == called[i].call + LintTimeout
\* context.WithTimeout(ctx, m.timeout), evaluated by the holder of the lock
CheckDeadline(i) == now + LintTimeout

\* golangciLintMutex.Lock() returns; checkCtx is made; the command starts
TimedBegin(i) ==
  /\ mpc[i] = "start"
  /\ Lock(i)
  /\ called' = [called EXCEPT ![i].lock = now]
  /\ deadline' = [deadline EXCEPT ![i] = CheckDeadline(i)]
  /\ mpc' = [mpc EXCEPT ![i] = "running"]
  /\ runs' = [runs EXCEPT ![i] = @ + 1]
  /\ execCount' = [execCount EXCEPT ![i] = @ + 1]
  /\ UNCHANGED <<storeFrame, callerVars, checkVars, statusVars, lockVars,
                 deliverVars, now, spc, spawnIdx, wg, mres, tickerOn, tickerC,
                 cancelled, ticks, updCount>>

\* how the command of check i can end now: killed for the deadline once the
\* deadline is reached, by itself before, aborted once ctx is cancelled
TimedOutcomes(i) ==
  {o \in QualityOutcomes :
     /\ o = "timeout" => now >= deadline[i]
     /\ o \in {"spawn", "exit0", "exit1"} => now < deadline[i]
     /\ o = "cancelled" => cancelled}

TimedReturns(i) == \E o \in TimedOutcomes(i) : CheckReturns(i, o)

\* time passes, but not beyond the deadline of a command that runs
ClockTick ==
  /\ now < MaxClock
  /\ \A i \in LintIds : mpc[i] = "running" => now < deadline[i]
  /\ now' = now + 1
  /\ UNCHANGED <<storeFrame, callerVars, schedVars, checkVars, statusVars,
                 lockVars, deliverVars, called, deadline>>

TimedWorker(i) ==
  \/ TimedBegin(i)
  \/ TimedReturns(i)
  \/ Publish(i)

NextDeadline ==
  \/ TimedPass
  \/ LintCancel
  \/ ClockTick
  \/ \E i \in LintIds : TimedWorker(i)

SpecDeadline == InitDeadline /\ [][NextDeadline]_vars

(***************************************************************************)
(* Claims about the deadline of a lint-exclusive check (SpecDeadline).     *)
(***************************************************************************)
\* Check of monitor i has returned the Result of a timeout
ReturnedTimeout(i) ==
  /\ mres[i] # Nil
  /\ mres[i][1].result # Nil
  /\ TimeoutMessage(mres[i][1].result[1])
\* how long check i waited in Lock() in its last call
WaitedForLock(i) == called[i].lock - called[i].call

\* C39: the deadline of a lint-exclusive check is counted from the moment it
\* got the lint lock: while its command runs the deadline is the time of the
\* acquisition plus the configured timeout, a check that waits for the lock
\* has returned nothing, and a timeout Result is returned only when the full
\* timeout has passed since the acquisition, however long the check waited
C39_DeadlineStartsAtLock ==
  \A i \in LintIds :
    /\ mpc[i] = "running" => deadline[i] = called[i].lock + LintTimeout
    /\ mpc[i] = "start" => mres[i] = Nil
    /\ ReturnedTimeout(i) => now - called[i].lock >= LintTimeout
\* a check waited in Lock() for at least its whole timeout behind a check
\* that timed out, and its own command then ran and succeeded
C39_Witness ==
  \E i, j \in LintIds :
    /\ WaitedForLock(i) >= LintTimeout
    /\ mres[i] # Nil
    /\ mres[i][1].result[1].Status = "ok"
    /\ Get(Monitors[j].name) # Nil
    /\ TimeoutMessage(Get(Monitors[j].name)[1])
    /\ Get(Monitors[j].name)[1].Timestamp = ticks

(***************************************************************************)
(* SpecOps: every method of the store statement by statement under s.mu,   *)
(* with the callers the program has: a worker that calls Update, a reader  *)
(* that calls Get, an SSE handler that calls Subscribe and later           *)
(* Unsubscribe, and the forwarding goroutines, which call GetAll for every *)
(* StateUpdate they receive.  A goroutine that has called a method and     *)
(* waits in Lock() or RLock() is at "call".  Nobody has to read a          *)
(* subscriber's channel, and no forwarder has to be quick.                 *)
(***************************************************************************)
OpUpdaters == {"api"}
OpReaders == {"get"}
Handlers == {"sse1"}
ForwarderNames == <<"fwd1", "fwd2">>
\* the forwarding goroutine of subscription k
Fwd(k) == ForwarderNames[k]
OpGoroutines ==
  OpUpdaters \cup OpReaders \cup Handlers \cup {Fwd(k) : k \in SubIds}

\* the calls a goroutine makes: a handler subscribes, then unsubscribes; the
\* reader calls Get once; a forwarder calls GetAll whenever it is woken
OpCalls(g) ==
  CASE g \in Handlers -> 2
    [] g \in OpReaders -> 1
    [] g \in OpUpdaters -> MaxRounds
    [] OTHER -> 0

InitOps ==
  /\ NewStateStore /\ NoSubscriptions /\ NoCalls /\ SchedulerOff
  /\ NoCheck /\ NoStatus /\ NoDelivery /\ NoClock
  /\ mu = NewRWMutex
  /\ gos = [g \in OpGoroutines |-> [pc |-> "idle", round |-> 0, local |-> <<>>]]

\* a worker, a reader or a handler calls its next method
OpCall(g) ==
  /\ At(g, "idle")
  /\ gos[g].round < OpCalls(g)
  /\ Goto(g, "call")
  /\ UNCHANGED <<mu, maps, history, wq, lockFrame>>

\* Update, Subscribe, Unsubscribe: s.mu.Lock() entered
OpLock(g) ==
  /\ At(g, "call")
  /\ MuLock(g)
  /\ Goto(g, "locking")
  /\ UNCHANGED <<maps, history, wq, lockFrame>>

\* Get, GetAll: s.mu.RLock()
OpRLock(g) ==
  /\ At(g, "call")
  /\ MuRLock(g)
  /\ Goto(g, "read")
  /\ UNCHANGED <<maps, history, wq, lockFrame>>

\* what the steps of a handler leave alone
handlerFrame == <<maps, history, callerVars, schedVars, checkVars, statusVars,
                  deliverVars, timeVars, panics, lastNotify>>

\* Subscribe, Unsubscribe: s.mu.Lock() returns
HandlerLocked(g) ==
  /\ At(g, "locking")
  /\ MuLockWait(g)
  /\ Goto(g, "body")
  /\ UNCHANGED <<maps, history, wq, lockFrame>>

\* Subscribe(updates): the watcher is made and listed, the forwarder started
HandlerSubscribe(g) ==
  /\ At(g, "body")
  /\ gos[g].round = 0
  /\ nSub + 1 \in SubIds
  /\ Subscribe(nSub + 1)
  /\ gos' = [gos EXCEPT ![g].pc = "unlock", ![g].local = nSub + 1]
  /\ UNCHANGED <<mu, callerVars, schedVars, checkVars, statusVars,
                 deliverVars, timeVars>>

\* Unsubscribe(updates): the last watcher is closed, then the channel
HandlerUnsubscribe(g) ==
  /\ At(g, "body")
  /\ gos[g].round = 1
  /\ Unsubscribe(gos[g].local)
  /\ Goto(g, "unlock")
  /\ UNCHANGED <<mu, callerVars, schedVars, checkVars, statusVars,
                 deliverVars, timeVars>>

\* defer s.mu.Unlock(); Subscribe / Unsubscribe returns
HandlerUnlock(g) ==
  /\ At(g, "unlock")
  /\ MuUnlock(g)
  /\ gos' = [gos EXCEPT ![g].pc = "idle", ![g].round = @ + 1]
  /\ UNCHANGED <<maps, history, wq, lockFrame>>

\* handleSSE: case <-updates, between Subscribe and Unsubscribe
HandlerRead(g) ==
  /\ At(g, "idle")
  /\ gos[g].round = 1
  /\ ReceiveSnapshot(gos[g].local)
  /\ UNCHANGED <<mu, gos, callerVars, schedVars, checkVars, statusVars,
                 deliverVars, timeVars>>

\* the forwarder of k: for range watcher
FwdReceive(k) ==
  /\ ForwardReceive(k)
  /\ UNCHANGED <<mu, gos, callerVars, schedVars, checkVars, statusVars,
                 deliverVars, timeVars>>

\* the forwarder of k calls s.GetAll(): s.mu.RLock()
FwdRLock(k) ==
  /\ fpc[k] = "getall"
  /\ At(Fwd(k), "idle")
  /\ MuRLock(Fwd(k))
  /\ Goto(Fwd(k), "read")
  /\ UNCHANGED <<maps, history, wq, lockFrame>>

\* GetAll copies s.results
FwdRead(k) ==
  /\ At(Fwd(k), "read")
  /\ ForwardGetAll(k)
  /\ Goto(Fwd(k), "runlock")
  /\ UNCHANGED <<mu, callerVars, schedVars, checkVars, statusVars,
                 deliverVars, timeVars>>

\* defer s.mu.RUnlock(); GetAll returns to the forwarder
FwdRUnlock(k) ==
  /\ At(Fwd(k), "runlock")
  /\ MuRUnlock(Fwd(k))
  /\ Goto(Fwd(k), "idle")
  /\ UNCHANGED <<maps, history, wq, lockFrame>>

\* select { case ch <- snapshot: default: }
FwdSend(k) ==
  /\ At(Fwd(k), "idle")
  /\ ForwardSend(k)
  /\ UNCHANGED <<mu, gos, callerVars, schedVars, checkVars, statusVars,
                 deliverVars, timeVars>>

\* the steps of a method by which its caller comes to hold s.mu
OpAcquire(g) ==
  \/ g \in OpUpdaters \cup Handlers /\ OpLock(g)
  \/ g \in OpReaders /\ OpRLock(g)
  \/ \E k \in SubIds : g = Fwd(k) /\ FwdRLock(k)

\* the steps of a method made while its caller holds, or is next to hold, s.mu
OpInside(g) ==
  \/ /\ g \in OpUpdaters
     /\ \/ UpdateLocked(g)
        \/ UpdateStore(g)
        \/ UpdateLoadHistory(g)
        \/ UpdateStoreHistory(g)
        \/ UpdateNotify(g)
        \/ UpdateUnlock(g)
  \/ /\ g \in OpReaders
     /\ \/ Read(g)
        \/ ReadUnlock(g)
  \/ /\ g \in Handlers
     /\ \/ HandlerLocked(g)
        \/ HandlerSubscribe(g)
        \/ HandlerUnsubscribe(g)
        \/ HandlerUnlock(g)
  \/ \E k \in SubIds :
       /\ g = Fwd(k)
       /\ \/ FwdRead(k)
          \/ FwdRUnlock(k)

\* what a goroutine does outside the methods of the store
OpOutside ==
  \/ \E g \in OpUpdaters \cup OpReaders \cup Handlers : OpCall(g)
  \/ \E g \in Handlers : HandlerRead(g)
  \/ \E k \in SubIds : FwdReceive(k) \/ FwdSend(k)

NextOps ==
  \/ OpOutside
  \/ \E g \in OpGoroutines : OpAcquire(g)
  \/ \E g \in OpGoroutines : OpInside(g)

\* a goroutine inside a method runs; sync.RWMutex lets a waiting writer in
\* after the writers before it (rw.w is a sync.Mutex, fair to a waiter that
\* has waited long) and lets the readers that wait for a writer in when that
\* writer unlocks
FairnessOps ==
  \A g \in OpGoroutines :
    /\ SF_vars(OpAcquire(g))
    /\ WF_vars(OpInside(g))

SpecOps == InitOps /\ [][NextOps]_vars /\ FairnessOps

(***************************************************************************)
(* Claims about the progress of the store's methods (SpecOps).             *)
(***************************************************************************)
\* goroutine g has called a method of the store that has not returned
InMethod(g) ==
  \/ ~At(g, "idle")
  \/ \E k \in SubIds : g = Fwd(k) /\ fpc[k] = "getall"
\* goroutine g holds s.mu, for reading or for writing
HoldsMu(g) == g \in mu.readers \/ (mu.w = g /\ mu.writing)

\* C37: every call of Update, GetAll, Subscribe or Unsubscribe, also a
\* forwarder's GetAll, comes to hold s.mu and returns, whatever the others
\* do and whether or not the subscribers' channels are read
C37_EveryMethodReturns ==
  \A g \in OpGoroutines :
    /\ InMethod(g) ~> HoldsMu(g)
    /\ InMethod(g) ~> ~InMethod(g)
\* every call has returned with a subscriber's channel full and an update
\* left in a watcher's queue
C37_Witness ==
  /\ \A g \in OpGoroutines : ~InMethod(g) /\ gos[g].round = OpCalls(g)
  /\ \E k \in SubIds : Len(cq[k]) = ChanCap
  /\ \E k \in SubIds : wq[k] # <<>>
=========================================================================
